---- MODULE Spec2Model ----
(***************************************************************************)
(* Model of zangalewa's transactional auto-fix pipeline:                   *)
(*   core/errors/auto_resolver.py  AutoErrorResolver (checkpointed fixer)  *)
(*   cli/commands/auto_fix_cmd.py  AutoFixCommandHandler (verification     *)
(*                                 loop)                                   *)
(*   core/errors/detector.py       ErrorDetector (first-match classifier)  *)
(*   core/errors/resolver.py       ErrorResolver (solutions and sources)   *)
(*   core/errors/search.py         ErrorSearcher (providers and ranking)   *)
(*   core/executor/command.py      CommandExecutor (deny-list, timeout)    *)
(* git, the shell command runner and the language model are environment:   *)
(* their answers are nondeterministic inputs of the actions.  Each         *)
(* component has its own specification; the variables of the components a  *)
(* specification does not exercise stay at Idle.                           *)
(***************************************************************************)
EXTENDS Integers, Sequences, FiniteSets, TLC

(***************************************************************************)
(* Bounds                                                                  *)
(***************************************************************************)
\* largest max_fix_attempts a caller passes to run_with_auto_fix
MaxAttempts == 2
\* largest value of int(time.time()) observed, counted from the first call
MaxTime == 1
\* most whitespace-separated tokens of an error text given to the detector
MaxWords == 11
\* most results one provider returns for a query
MaxResults == 2

(***************************************************************************)
(* The working tree                                                        *)
(***************************************************************************)
\* paths of regular files of the project the handlers can name
Files == {"package.json", "package-lock.json", "app.js"}
\* paths git tracks no content for: a directory made by mkdir -p, and .git
Dirs == {"build", ".git"}
\* file contents: 0 = the file does not exist, 1 and 2 = two different texts;
\* the content a file has after a handler rewrote it: always a changed text
Rewritten(c) == IF c = 1 THEN 2 ELSE 1
\* touch: creates an empty file, leaves an existing file's content alone
Touched(c) == IF c = 0 THEN 1 ELSE c

(***************************************************************************)
(* Branch names                                                            *)
(***************************************************************************)
\* branch_name = f"error-fix-{int(time.time())}"
FixBranch(t) == "error-fix-" \o ToString(t)
FixBranches == {FixBranch(t) : t \in 0..MaxTime}
\* branches a user's repository is on before a fix: main or another one
UserBranches == {"main", "develop"}
BranchNames == UserBranches \cup FixBranches
\* current_branch.startswith("error-fix-")
StartsWithErrorFix(b) == b \in FixBranches

(***************************************************************************)
(* git, as used through subprocess.run(..., check=True).  A repository r   *)
(* is [branches, head, commits, index, tree]: branches maps a name to the  *)
(* number of its commit (0 = no such branch), commits is the list of       *)
(* commits [snap, parents], index the staged snapshot, tree the working    *)
(* tree.  Every command returns [ok, repo]; ok = FALSE is a non-zero exit, *)
(* which check=True turns into CalledProcessError.                         *)
(***************************************************************************)
Snap(r, b) == r.commits[r.branches[b]].snap

RECURSIVE Ancestors(_, _)
\* the commits reachable from commit n, n included
Ancestors(r, n) ==
    {n} \cup UNION {Ancestors(r, p) : p \in r.commits[n].parents}

\* files whose content differs between two snapshots
Differing(s1, s2) == {f \in Files : s1[f] # s2[f]}

\* local changes (staged or not) relative to HEAD's snapshot
LocallyChanged(r) ==
    {f \in Files : r.tree[f] # Snap(r, r.head)[f] \/ r.index[f] # Snap(r, r.head)[f]}

\* git checkout -b <b>
GitCheckoutNew(r, b) ==
    IF r.branches[b] # 0
    THEN [ok |-> FALSE, repo |-> r]
    ELSE [ok |-> TRUE,
          repo |-> [r EXCEPT !.branches[b] = r.branches[r.head], !.head = b]]

\* moving HEAD's checkout from snapshot s1 to s2: files that differ between
\* the two are rewritten; local changes to such a file abort the command
SwitchTree(r, s1, s2) ==
    [r EXCEPT !.tree  = [f \in Files |-> IF s1[f] # s2[f] THEN s2[f] ELSE r.tree[f]],
              !.index = [f \in Files |-> IF s1[f] # s2[f] THEN s2[f] ELSE r.index[f]]]

\* git checkout <b>
GitCheckout(r, b) ==
    IF r.branches[b] = 0
    THEN [ok |-> FALSE, repo |-> r]
    ELSE LET s1 == Snap(r, r.head)
             s2 == Snap(r, b)
         IN IF Differing(s1, s2) \cap LocallyChanged(r) # {}
            THEN [ok |-> FALSE, repo |-> r]
            ELSE [ok |-> TRUE, repo |-> [SwitchTree(r, s1, s2) EXCEPT !.head = b]]

\* git add <p>: a path that names nothing is a pathspec error; a directory
\* without files stages nothing
GitAdd(r, p) ==
    IF p \in Dirs
    THEN [ok |-> TRUE, repo |-> r]
    ELSE IF r.tree[p] = 0 /\ r.index[p] = 0
         THEN [ok |-> FALSE, repo |-> r]
         ELSE [ok |-> TRUE, repo |-> [r EXCEPT !.index[p] = r.tree[p]]]

RECURSIVE GitAddAll(_, _)
\* for file in files: git add file  (stops at the first failure)
GitAddAll(r, files) ==
    IF files = <<>>
    THEN [ok |-> TRUE, repo |-> r]
    ELSE LET a == GitAdd(r, Head(files))
         IN IF a.ok THEN GitAddAll(a.repo, Tail(files)) ELSE a

\* git commit -m <message>: exits 1 when nothing is staged
GitCommit(r) ==
    IF r.index = Snap(r, r.head)
    THEN [ok |-> FALSE, repo |-> r]
    ELSE LET c == [snap |-> r.index, parents |-> {r.branches[r.head]}]
         IN [ok |-> TRUE,
             repo |-> [r EXCEPT !.commits = Append(r.commits, c),
                                !.branches[r.head] = Len(r.commits) + 1]]

\* the merge base of two commits: their latest common ancestor
MergeBase(r, n1, n2) ==
    LET common == Ancestors(r, n1) \cap Ancestors(r, n2)
    IN CHOOSE n \in common : \A m \in common : m <= n

\* git merge <b> into the checked-out branch
GitMerge(r, b) ==
    IF r.branches[b] = 0
    THEN [ok |-> FALSE, repo |-> r]
    ELSE LET ours   == r.branches[r.head]
             theirs == r.branches[b]
             s1     == r.commits[ours].snap
             s2     == r.commits[theirs].snap
         IN IF theirs \in Ancestors(r, ours)
            THEN [ok |-> TRUE, repo |-> r]                  \* already up to date
            ELSE IF ours \in Ancestors(r, theirs)
            THEN IF Differing(s1, s2) \cap LocallyChanged(r) # {}
                 THEN [ok |-> FALSE, repo |-> r]
                 ELSE [ok |-> TRUE,                         \* fast-forward
                       repo |-> [SwitchTree(r, s1, s2) EXCEPT !.branches[r.head] = theirs]]
            ELSE LET s0 == r.commits[MergeBase(r, ours, theirs)].snap
                     conflict == {f \in Files : s1[f] # s0[f] /\ s2[f] # s0[f] /\ s1[f] # s2[f]}
                     sm == [f \in Files |-> IF s2[f] # s0[f] THEN s2[f] ELSE s1[f]]
                     c  == [snap |-> sm, parents |-> {ours, theirs}]
                 IN IF conflict # {} \/ Differing(s1, sm) \cap LocallyChanged(r) # {}
                    THEN [ok |-> FALSE, repo |-> r]
                    ELSE [ok |-> TRUE,                      \* merge commit
                          repo |-> [SwitchTree(r, s1, sm) EXCEPT
                                      !.commits = Append(r.commits, c),
                                      !.branches[r.head] = Len(r.commits) + 1]]

\* git branch -d <b> (force = FALSE) and git branch -D <b> (force = TRUE)
GitBranchDelete(r, b, force) ==
    IF \/ r.branches[b] = 0
       \/ r.head = b
       \/ ~force /\ r.branches[b] \notin Ancestors(r, r.branches[r.head])
    THEN [ok |-> FALSE, repo |-> r]
    ELSE [ok |-> TRUE, repo |-> [r EXCEPT !.branches[b] = 0]]

(***************************************************************************)
(* ErrorDetector: the ordered pattern table and first-match classification  *)
(***************************************************************************)
\* error_type of self.patterns, in declaration order
PatternOrder ==
    << "python_import_error", "python_module_not_found", "python_syntax_error",
       "python_type_error", "python_value_error", "python_attribute_error",
       "shell_command_not_found", "file_not_found", "permission_denied",
       "git_not_a_repo", "git_connection_error", "git_push_error",
       "pip_package_not_found", "timeout_error", "memory_error",
       "segmentation_fault", "react_hook_conditional", "react_invalid_element",
       "js_undefined_property", "react_module_not_found", "npm_package_not_found",
       "npm_invalid_self_operation", "npm_permission_error" >>

\* An error text is described by what the code's regular expressions find in
\* it: matches = the patterns of the table that match it, extract = whether
\* the strategy handler's own expression finds its capture, path = the path
\* that capture names.
\* detect_error + analyze_error: the first pattern in declaration order that
\* matches decides the type; no match gives unknown_error
RECURSIVE DetectError(_, _)
\* a scan in which the last pattern of the table that matches wins
DetectErrorLast(matches, i) ==
    IF \E k \in i..Len(PatternOrder) : PatternOrder[k] \in matches
    THEN CHOOSE k \in i..Len(PatternOrder) :
            /\ PatternOrder[k] \in matches
            /\ \A j \in (k + 1)..Len(PatternOrder) : PatternOrder[j] \notin matches
    ELSE 0

\* detect_error: for pattern in self.patterns, from position i on: return the
\* pattern (its position) at the first match, None (0) after the last one
DetectError(matches, i) ==
    IF i > Len(PatternOrder) THEN 0
    ELSE IF PatternOrder[i] \in matches THEN i
    ELSE DetectError(matches, i + 1)

DetectErrorType(matches) ==
    LET i == DetectError(matches, 1)
    IN IF i = 0 THEN "unknown_error" ELSE PatternOrder[i]

(***************************************************************************)
(* AutoErrorResolver: strategy table and dispatch                          *)
(***************************************************************************)
AUTOFIXABLE_ERRORS ==
    [e \in {"python_import_error", "python_module_not_found", "npm_package_not_found",
            "react_module_not_found", "file_not_found", "permission_denied",
            "react_hook_conditional", "js_undefined_property", "python_syntax_error",
            "git_not_a_repo"} |->
        CASE e \in {"python_import_error", "python_module_not_found",
                    "npm_package_not_found", "react_module_not_found"} -> "install_dependency"
          [] e = "file_not_found"         -> "create_missing_file_or_dir"
          [] e = "permission_denied"      -> "fix_permissions"
          [] e = "react_hook_conditional" -> "fix_react_hook"
          [] e = "js_undefined_property"  -> "add_null_check"
          [] e = "python_syntax_error"    -> "fix_syntax"
          [] e = "git_not_a_repo"         -> "init_git_repo"]

\* the fix methods class AutoErrorResolver defines, by name
FixMethods ==
    {"_fix_install_dependency", "_fix_create_missing_file_or_dir", "_fix_permissions",
     "_fix_react_hook", "_fix_add_null_check", "_fix_syntax", "_fix_init_git_repo"}

\* f"_fix_{fix_method_name}": the attribute name handle_error looks up
FixMethodName(strategy) == "_fix_" \o strategy

\* getattr(self, name): an AttributeError when the class has no such method
HasAttr(name) == name \in FixMethods

(***************************************************************************)
(* AutoErrorResolver: the git helpers.  fault = k says the environment     *)
(* makes the k-th git command of the helper exit non-zero (0 = none does); *)
(* a command also fails for git's own reasons.  Each helper returns        *)
(* [raised, repo]: raised = TRUE is the CalledProcessError of check=True,  *)
(* repo keeps the effect of the commands that ran before it.               *)
(***************************************************************************)
\* _create_branch
CreateBranch(r, branch_name, fault) ==
    LET c == GitCheckoutNew(r, branch_name)
    IN IF fault = 1 \/ ~c.ok
       THEN [raised |-> TRUE, repo |-> r]
       ELSE [raised |-> FALSE, repo |-> c.repo]

\* _commit_changes: git add each file, git commit, git rev-parse HEAD;
\* hash = the number of the commit returned (0 when it raised)
CommitChanges(r, files, fault) ==
    LET a == GitAddAll(r, files)
    IN IF (fault = 1 /\ files # <<>>) \/ ~a.ok
       THEN [raised |-> TRUE, repo |-> IF fault = 1 THEN r ELSE a.repo, hash |-> 0]
       ELSE LET c == GitCommit(a.repo)
            IN IF fault = 2 \/ ~c.ok
               THEN [raised |-> TRUE, repo |-> a.repo, hash |-> 0]
               ELSE IF fault = 3
                    THEN [raised |-> TRUE, repo |-> c.repo, hash |-> 0]
                    ELSE [raised |-> FALSE, repo |-> c.repo,
                          hash |-> c.repo.branches[c.repo.head]]

\* _merge_branch: rev-parse, checkout main when on a fix branch, merge,
\* branch -d
MergeBranch(r, branch_name, fault) ==
    IF fault = 1
    THEN [raised |-> TRUE, repo |-> r]
    ELSE LET co == IF StartsWithErrorFix(r.head)
                   THEN GitCheckout(r, "main")
                   ELSE [ok |-> TRUE, repo |-> r]
         IN IF (fault = 2 /\ StartsWithErrorFix(r.head)) \/ ~co.ok
            THEN [raised |-> TRUE, repo |-> r]
            ELSE LET m == GitMerge(co.repo, branch_name)
                 IN IF fault = 3 \/ ~m.ok
                    THEN [raised |-> TRUE, repo |-> co.repo]
                    ELSE LET d == GitBranchDelete(m.repo, branch_name, FALSE)
                         IN IF fault = 4 \/ ~d.ok
                            THEN [raised |-> TRUE, repo |-> m.repo]
                            ELSE [raised |-> FALSE, repo |-> d.repo]

\* _abandon_branch: rev-parse, checkout main when on the fix branch,
\* branch -D
AbandonBranch(r, branch_name, fault) ==
    IF fault = 1
    THEN [raised |-> TRUE, repo |-> r]
    ELSE LET co == IF r.head = branch_name
                   THEN GitCheckout(r, "main")
                   ELSE [ok |-> TRUE, repo |-> r]
         IN IF (fault = 2 /\ r.head = branch_name) \/ ~co.ok
            THEN [raised |-> TRUE, repo |-> r]
            ELSE LET d == GitBranchDelete(co.repo, branch_name, TRUE)
                 IN IF fault = 3 \/ ~d.ok
                    THEN [raised |-> TRUE, repo |-> co.repo]
                    ELSE [raised |-> FALSE, repo |-> d.repo]

(***************************************************************************)
(* Strategy handlers.  A handler gets the classified type etype, the error *)
(* text err = [matches, extract, path] and the working tree, and yields    *)
(* the set of outcomes [status, files, tree] the environment allows:       *)
(* status is "success" / "failure" (the ErrorFixResult's success) or       *)
(* "raised" (an exception leaves the handler), files the modified_files    *)
(* it reports, tree the working tree it leaves behind.                     *)
(***************************************************************************)
Outcome(status, files, tree) == [status |-> status, files |-> files, tree |-> tree]

\* the answers of CommandExecutor.execute: success, or a failed / timed-out
\* (killed) command
ExecResults == {TRUE, FALSE}

\* a working tree after the given files were rewritten
RewriteAll(tree, fs) == [f \in Files |-> IF f \in fs THEN Rewritten(tree[f]) ELSE tree[f]]

\* the files an npm install run writes before it ends or is killed
NpmWrites == SUBSET {"package.json", "package-lock.json"}

\* '.' not in os.path.basename(path) or path.endswith('/')
LooksLikeDir(path) == path = "build"

\* open(file_path, 'r') succeeds
Readable(tree, path) == path \in Files /\ tree[path] # 0

\* _fix_install_dependency
FixInstallDependency(etype, err, tree) ==
    IF etype \in {"python_import_error", "python_module_not_found"}
    THEN \* the type's own pattern contains the handler's "No module named"
         {Outcome("success", <<>>, tree), Outcome("failure", <<>>, tree)}
    ELSE IF etype \in {"npm_package_not_found", "react_module_not_found"} /\ err.extract
    THEN {Outcome("success", <<"package.json", "package-lock.json">>, RewriteAll(tree, w)) :
             w \in NpmWrites}
         \cup {Outcome("failure", <<>>, RewriteAll(tree, w)) : w \in NpmWrites}
    ELSE {Outcome("failure", <<>>, tree)}

\* _fix_create_missing_file_or_dir
FixCreateMissingFileOrDir(etype, err, tree) ==
    IF ~err.extract
    THEN {Outcome("failure", <<>>, tree)}
    ELSE IF LooksLikeDir(err.path)
    THEN {Outcome("success", <<err.path>>, tree), Outcome("failure", <<>>, tree)}
    ELSE {Outcome("success", <<err.path>>, [tree EXCEPT ![err.path] = Touched(@)]),
          Outcome("failure", <<>>, tree)}

\* _fix_permissions
FixPermissions(etype, err, tree) ==
    IF ~err.extract
    THEN {Outcome("failure", <<>>, tree)}
    ELSE {Outcome("success", <<err.path>>, tree), Outcome("failure", <<>>, tree)}

\* _fix_react_hook: reads the file, rewrites it when the hook is found
FixReactHook(etype, err, tree) ==
    IF ~err.extract
    THEN {Outcome("failure", <<>>, tree)}
    ELSE IF ~Readable(tree, err.path)
    THEN {Outcome("raised", <<>>, tree)}
    ELSE {Outcome("success", <<err.path>>, [tree EXCEPT ![err.path] = Rewritten(@)]),
          Outcome("failure", <<>>, tree)}

\* _fix_add_null_check: reads the file, rewrites it when the access is found
FixAddNullCheck(etype, err, tree) ==
    IF ~err.extract
    THEN {Outcome("failure", <<>>, tree)}
    ELSE IF ~Readable(tree, err.path)
    THEN {Outcome("raised", <<>>, tree)}
    ELSE {Outcome("success", <<err.path>>, [tree EXCEPT ![err.path] = Rewritten(@)]),
          Outcome("failure", <<>>, tree)}

\* _fix_syntax: reads the file, asks the language model, writes its answer
FixSyntax(etype, err, tree) ==
    IF ~err.extract
    THEN {Outcome("failure", <<>>, tree)}
    ELSE IF ~Readable(tree, err.path)
    THEN {Outcome("raised", <<>>, tree)}
    ELSE {Outcome("success", <<err.path>>, [tree EXCEPT ![err.path] = Rewritten(@)]),
          Outcome("failure", <<>>, tree),      \* empty response
          Outcome("raised", <<>>, tree)}       \* generate_text raised

\* _fix_init_git_repo
FixInitGitRepo(etype, err, tree) ==
    {Outcome("success", <<".git">>, tree), Outcome("failure", <<>>, tree)}

\* fix_method(command, error_analysis) for the method of the given name
RunFixMethod(name, etype, err, tree) ==
    CASE name = "_fix_install_dependency"         -> FixInstallDependency(etype, err, tree)
      [] name = "_fix_create_missing_file_or_dir" -> FixCreateMissingFileOrDir(etype, err, tree)
      [] name = "_fix_permissions"                -> FixPermissions(etype, err, tree)
      [] name = "_fix_react_hook"                 -> FixReactHook(etype, err, tree)
      [] name = "_fix_add_null_check"             -> FixAddNullCheck(etype, err, tree)
      [] name = "_fix_syntax"                     -> FixSyntax(etype, err, tree)
      [] name = "_fix_init_git_repo"              -> FixInitGitRepo(etype, err, tree)

\* whether the method gives a command to command_executor.execute: pip or
\* npm install, mkdir -p / touch, chmod, git init; the methods that patch a
\* source file never do
FixMethodExecutes(name, etype, err, tree) ==
    CASE name = "_fix_install_dependency" ->
             \/ etype \in {"python_import_error", "python_module_not_found"}
             \/ err.extract
      [] name \in {"_fix_create_missing_file_or_dir", "_fix_permissions"} -> err.extract
      [] name \in {"_fix_react_hook", "_fix_add_null_check", "_fix_syntax"} -> FALSE
      [] name = "_fix_init_git_repo" -> TRUE

\* whether the method suspends at an await (command_executor.execute or
\* llm_manager.generate_text) before it returns
FixMethodAwaits(name, etype, err, tree) ==
    CASE name = "_fix_install_dependency" ->
             \/ etype \in {"python_import_error", "python_module_not_found"}
             \/ err.extract
      [] name \in {"_fix_create_missing_file_or_dir", "_fix_permissions"} -> err.extract
      [] name \in {"_fix_react_hook", "_fix_add_null_check"} -> FALSE
      [] name = "_fix_syntax" -> err.extract /\ Readable(tree, err.path)
      [] name = "_fix_init_git_repo" -> TRUE

(***************************************************************************)
(* Inputs                                                                  *)
(***************************************************************************)
\* the pattern sets of the error texts a failing command prints
MatchSets ==
    {{}} \cup {{e} : e \in DOMAIN AUTOFIXABLE_ERRORS} \cup
    {{"python_type_error"}, {"permission_denied", "npm_permission_error"},
     {"file_not_found", "js_undefined_property"}}

\* the paths an error text names
ErrPaths == {"app.js", "package.json", "build"}

\* the types whose handler reads the capture of its own expression, and
\* those whose handler uses the captured path
ExtractTypes == {"npm_package_not_found", "react_module_not_found", "file_not_found",
                 "js_undefined_property"}
PathTypes == {"file_not_found", "js_undefined_property"}

\* extract and path are left at FALSE and "app.js" where no handler reads them
ErrorTexts ==
    {e \in [matches : MatchSets, extract : BOOLEAN, path : ErrPaths] :
        /\ e.extract => e.matches \cap ExtractTypes # {}
        /\ e.path # "app.js" => e.extract /\ e.matches \cap PathTypes # {}}

NoError == [matches |-> {}, extract |-> FALSE, path |-> "app.js"]

\* the snapshots of the first commit of the user's repository
InitSnaps ==
    {s \in [Files -> 0..1] : s["app.js"] = 1 /\ s["package.json"] = 1}

\* the repositories handle_error is first called on: on main; on develop
\* without a main branch; on develop with main at the same commit; on
\* develop one commit ahead of main
InitRepos ==
    LET c1(s) == [snap |-> s, parents |-> {}]
        c2(s) == [snap |-> [s EXCEPT !["app.js"] = 2], parents |-> {1}]
        br(m, d) == [b \in BranchNames |-> IF b = "main" THEN m ELSE IF b = "develop" THEN d ELSE 0]
        mk(cs, m, d, h) == [branches |-> br(m, d), head |-> h, commits |-> cs,
                            index |-> cs[Len(cs)].snap, tree |-> cs[Len(cs)].snap]
    IN UNION {{mk(<<c1(s)>>, 1, 0, "main"), mk(<<c1(s)>>, 0, 1, "develop"),
               mk(<<c1(s)>>, 1, 1, "develop"), mk(<<c1(s), c2(s)>>, 1, 2, "develop")} :
              s \in InitSnaps}

(***************************************************************************)
(* State                                                                   *)
(***************************************************************************)
VARIABLES
    repo,         \* the git repository of project_dir, working tree included
    git_enabled,  \* AutoErrorResolver.git_enabled
    callers,      \* the run_with_auto_fix coroutines on the one handler
    running,      \* the coroutine that holds the event loop (0 = none)
    clock,        \* the last int(time.time()) read
    frame,        \* per coroutine: the locals of run_with_auto_fix / handle_error
    hist,         \* per coroutine: what the current fix attempt has done so far
    detector,     \* one ErrorDetector.analyze_error call: its input and result
    executor,     \* one CommandExecutor.execute call and the process it made
    ranking,      \* result lists given to ErrorSearcher._score_and_rank_results
    resolver,     \* one ErrorResolver.analyze_error call and test_solution
    store,        \* a KnowledgeStore: its files and the object opened on them
    context,      \* a ContextManager
    cli,          \* one invocation of the command line: fix or fix-script
    reranker      \* one ErrorResolver.rank_solutions call

vars == <<repo, git_enabled, callers, running, clock, frame, hist,
          detector, executor, ranking, resolver, store, context, cli, reranker>>

\* the variables of the knowledge store, the context, the command line and
\* the solution ranking
otherVars == <<store, context, cli, reranker>>

\* the variables of the fixer and its loop, and those of the other components
fixerVars == <<repo, git_enabled, callers, running, clock, frame, hist>>

\* a component no call is made on
Idle == [pc |-> "idle"]

\* no knowledge store, context, command line or solution ranking in use
IdleOthers == store = Idle /\ context = Idle /\ cli = Idle /\ reranker = Idle

NoResult == [success |-> FALSE, modified_files |-> <<>>, commit_hash |-> 0,
             action_taken |-> "", message |-> ""]

\* ErrorFixResult(...) as the handlers and handle_error build it
FixResult(success, files, action, message) ==
    [success |-> success, modified_files |-> files, commit_hash |-> 0,
     action_taken |-> action, message |-> message]

\* has_error: whether the ExecutionResult objects of the injected command
\* executor carry the attribute `error` that run_with_auto_fix reads (the
\* dataclass of core/executor/command.py has stdout and stderr only)
InitFrame(n) ==
    [pc |-> "start", max_fix_attempts |-> n, fix_attempts |-> 0, has_error |-> TRUE,
     success |-> FALSE, err |-> NoError, branch_name |-> "", error_type |-> "",
     method |-> "", exc |-> "", fix_result |-> NoResult, ret |-> "none"]

\* calls: handle_error invocations; runs / good_runs: executions of the
\* command and those that succeeded; the rest describes the current attempt
\* (issued: the attempt gave a command to the shell command runner)
InitHist ==
    [calls |-> 0, runs |-> 0, good_runs |-> 0,
     pre_tree |-> [f \in Files |-> 0], pre_head |-> "", created |-> FALSE,
     ran |-> "", issued |-> FALSE, reported |-> "none", staged |-> <<>>, vc_failed |-> FALSE,
     outcome |-> "none", log |-> <<>>]

InitWith(cs, repos, gits, ns) ==
    /\ repo \in repos
    /\ git_enabled \in gits
    /\ callers = cs
    /\ running = 0
    /\ clock = 0
    /\ frame \in [cs -> {[InitFrame(n) EXCEPT !.has_error = a] : n \in ns, a \in BOOLEAN}]
    /\ hist = [c \in cs |-> InitHist]
    /\ detector = Idle /\ executor = Idle /\ ranking = Idle /\ resolver = Idle
    /\ IdleOthers

\* one run_with_auto_fix at a time, as run_all_commands and the CLI call it
Init == InitWith({1}, InitRepos, BOOLEAN, 0..MaxAttempts)

\* two run_with_auto_fix coroutines started on the same handler, with git
\* enabled, in a repository that is on main, one fix attempt each
InitConc == InitWith({1, 2}, {r \in InitRepos : r.head = "main" /\ r.tree["package-lock.json"] = 0},
                     {TRUE}, {1})

\* the error texts the commands of a run print; two concurrent loops are
\* explored on a sample: an unknown error, one whose handler awaits the
\* command runner, one whose handler runs without suspending, and one whose
\* strategy has no method under the looked-up name
TextsOf(cs) ==
    IF Cardinality(cs) = 1
    THEN ErrorTexts
    ELSE {e \in ErrorTexts :
            /\ e.matches \in {{}, {"python_module_not_found"}, {"js_undefined_property"},
                              {"permission_denied"}}
            /\ e.path = "app.js"
            /\ e.extract = (e.matches = {"js_undefined_property"})}

\* cooperative scheduling: a coroutine runs when no other holds the loop
CanRun(c) == running \in {0, c}

(***************************************************************************)
(* AutoFixCommandHandler.run_with_auto_fix                                 *)
(***************************************************************************)
Set(c, f, h) ==
    /\ frame' = [frame EXCEPT ![c] = f]
    /\ hist' = [hist EXCEPT ![c] = h]

\* an exception that leaves handle_error: run_with_auto_fix has no handler
\* for it, so it ends the coroutine
Crash(f) == [f EXCEPT !.pc = "crashed", !.ret = "exception"]

\* result = await self.command_executor.execute(command); return True on
\* success
RunCommand(c) ==
    /\ CanRun(c)
    /\ frame[c].pc = "start"
    /\ \E ok \in ExecResults, e \in TextsOf(callers) :
          /\ ok => e = NoError
          /\ Set(c, [frame[c] EXCEPT !.success = ok, !.err = e,
                                     !.pc = IF ok THEN "returned" ELSE "loop",
                                     !.ret = IF ok THEN "true" ELSE "none"],
                    [hist[c] EXCEPT !.runs = @ + 1,
                                    !.good_runs = IF ok THEN @ + 1 ELSE @])
          /\ running' = IF ok THEN 0 ELSE c
    /\ UNCHANGED <<repo, git_enabled, callers, clock>>

\* while not result.success and fix_attempts < max_fix_attempts:
\*     fix_attempts += 1; fix_result = await handle_error(..., result.error)
\* and, when the loop ends, return result.success; evaluating result.error
\* on a result without that attribute raises AttributeError before the call
LoopTest(c) ==
    /\ CanRun(c)
    /\ frame[c].pc = "loop"
    /\ IF ~frame[c].success /\ frame[c].fix_attempts < frame[c].max_fix_attempts
              /\ ~frame[c].has_error
       THEN /\ Set(c, Crash([frame[c] EXCEPT !.fix_attempts = @ + 1,
                                             !.exc = "attribute_error"]),
                      hist[c])
            /\ running' = 0
       ELSE IF ~frame[c].success /\ frame[c].fix_attempts < frame[c].max_fix_attempts
       THEN /\ Set(c, [frame[c] EXCEPT !.fix_attempts = @ + 1, !.pc = "he_begin",
                                       !.branch_name = "", !.error_type = "",
                                       !.method = "", !.exc = "",
                                       !.fix_result = NoResult],
                      [InitHist EXCEPT !.calls = hist[c].calls + 1,
                                       !.runs = hist[c].runs,
                                       !.good_runs = hist[c].good_runs,
                                       !.pre_tree = repo.tree,
                                       !.pre_head = repo.head])
            /\ running' = c
       ELSE /\ Set(c, [frame[c] EXCEPT !.pc = "returned",
                                       !.ret = IF frame[c].success THEN "true" ELSE "false"],
                      hist[c])
            /\ running' = 0
    /\ UNCHANGED <<repo, git_enabled, callers, clock>>

\* a loop that runs the command again after every fix attempt
AfterFixAlwaysRetry(c) ==
    /\ CanRun(c)
    /\ frame[c].pc = "he_done"
    /\ Set(c, [frame[c] EXCEPT !.pc = "retry"], hist[c])
    /\ running' = 0
    /\ UNCHANGED <<repo, git_enabled, callers, clock>>

\* if fix_result.success: result = await execute(command) ...
\* else: break when fix_attempts >= max_fix_attempts, otherwise sleep(1)
AfterFix(c) ==
    /\ CanRun(c)
    /\ frame[c].pc = "he_done"
    /\ Set(c, [frame[c] EXCEPT
                 !.pc = IF frame[c].fix_result.success THEN "retry"
                        ELSE IF frame[c].fix_attempts >= frame[c].max_fix_attempts
                             THEN "returned" ELSE "loop",
                 !.ret = IF ~frame[c].fix_result.success
                            /\ frame[c].fix_attempts >= frame[c].max_fix_attempts
                         THEN "false" ELSE @],
              hist[c])
    /\ running' = 0
    /\ UNCHANGED <<repo, git_enabled, callers, clock>>

\* the re-run of the command after a successful fix
RetryCommand(c) ==
    /\ CanRun(c)
    /\ frame[c].pc = "retry"
    /\ \E ok \in ExecResults, e \in TextsOf(callers) :
          /\ ok => e = NoError
          /\ Set(c, [frame[c] EXCEPT !.success = ok, !.err = e,
                                     !.pc = IF ok THEN "returned" ELSE "loop",
                                     !.ret = IF ok THEN "true" ELSE "none"],
                    [hist[c] EXCEPT !.runs = @ + 1,
                                    !.good_runs = IF ok THEN @ + 1 ELSE @])
          /\ running' = IF ok THEN 0 ELSE c
    /\ UNCHANGED <<repo, git_enabled, callers, clock>>

(***************************************************************************)
(* AutoErrorResolver.handle_error                                          *)
(***************************************************************************)
Logged(h, ev) == [h EXCEPT !.log = Append(@, ev)]

\* handle_error without the branch creation at its top
CreatesFixBranchNever(enabled) == FALSE

\* if self.git_enabled: at the top of handle_error
CreatesFixBranch(enabled) == enabled

\* if self.git_enabled and fix_result.success / elif self.git_enabled:
\* where handle_error goes once the handler has returned its result
AfterHandler(enabled, success) ==
    IF enabled /\ success THEN "he_commit"
    ELSE IF enabled THEN "he_abandon"
    ELSE "he_done"

\* branch_name = f"error-fix-{int(time.time())}"; self._create_branch(...);
\* then await self.error_resolver.analyze_error(...)
BeginHandleError(c) ==
    /\ CanRun(c)
    /\ frame[c].pc = "he_begin"
    /\ \E t \in clock..MaxTime, fault \in 0..1 :
          /\ clock' = t
          /\ IF CreatesFixBranch(git_enabled)
             THEN LET cb == CreateBranch(repo, FixBranch(t), fault)
                  IN /\ repo' = cb.repo
                     /\ IF cb.raised
                        THEN /\ Set(c, Crash([frame[c] EXCEPT !.branch_name = FixBranch(t),
                                                              !.exc = "git_error"]),
                                       [hist[c] EXCEPT !.vc_failed = TRUE,
                                                       !.outcome = "raised"])
                             /\ running' = 0
                        ELSE /\ Set(c, [frame[c] EXCEPT !.branch_name = FixBranch(t),
                                                        !.pc = "he_analyzing"],
                                       Logged([hist[c] EXCEPT !.created = TRUE], "branch"))
                             /\ running' = 0
             ELSE /\ fault = 0
                  /\ repo' = repo
                  /\ Set(c, [frame[c] EXCEPT !.pc = "he_analyzing"], hist[c])
                  /\ running' = 0
    /\ UNCHANGED <<git_enabled, callers>>

\* error_analysis = await analyze_error(...) returns;
\* if error_analysis.error_type in self.AUTOFIXABLE_ERRORS
AnalyzeError(c) ==
    /\ CanRun(c)
    /\ frame[c].pc = "he_analyzing"
    /\ LET etype == DetectErrorType(frame[c].err.matches)
       IN Set(c, [frame[c] EXCEPT !.error_type = etype,
                                  !.pc = IF etype \in DOMAIN AUTOFIXABLE_ERRORS
                                         THEN "he_dispatch" ELSE "he_not_fixable"],
                 Logged(hist[c], "classify"))
    /\ running' = c
    /\ UNCHANGED <<repo, git_enabled, callers, clock>>

\* fix_method = getattr(self, f"_fix_{fix_method_name}") and the call of
\* the method up to its first await
Dispatch(c) ==
    /\ CanRun(c)
    /\ frame[c].pc = "he_dispatch"
    /\ LET name == FixMethodName(AUTOFIXABLE_ERRORS[frame[c].error_type])
       IN IF HasAttr(name)
          THEN /\ Set(c, [frame[c] EXCEPT !.method = name, !.pc = "he_fix"],
                         Logged(hist[c], "dispatch"))
               /\ running' = IF FixMethodAwaits(name, frame[c].error_type,
                                                frame[c].err, repo.tree)
                             THEN 0 ELSE c
          ELSE /\ Set(c, [frame[c] EXCEPT !.method = name, !.exc = "attribute_error",
                                          !.pc = "he_except"],
                         Logged(hist[c], "dispatch"))
               /\ running' = c
    /\ UNCHANGED <<repo, git_enabled, callers, clock>>

\* fix_result = await fix_method(command, error_analysis)
RunFix(c) ==
    /\ CanRun(c)
    /\ frame[c].pc = "he_fix"
    /\ \E o \in RunFixMethod(frame[c].method, frame[c].error_type, frame[c].err, repo.tree) :
          /\ repo' = [repo EXCEPT !.tree = o.tree]
          /\ IF o.status = "raised"
             THEN Set(c, [frame[c] EXCEPT !.exc = "handler_error", !.pc = "he_except"],
                         Logged([hist[c] EXCEPT !.ran = frame[c].method,
                                                !.issued = FixMethodExecutes(frame[c].method,
                                                    frame[c].error_type, frame[c].err, repo.tree),
                                                !.reported = "raised"], "handler"))
             ELSE Set(c, [frame[c] EXCEPT
                            !.fix_result = FixResult(o.status = "success", o.files,
                                                     frame[c].method, ""),
                            !.pc = AfterHandler(git_enabled, o.status = "success")],
                         Logged([hist[c] EXCEPT !.ran = frame[c].method,
                                                !.issued = FixMethodExecutes(frame[c].method,
                                                    frame[c].error_type, frame[c].err, repo.tree),
                                                !.reported = o.status,
                                                !.outcome = IF git_enabled THEN @ ELSE "no_git"],
                                "handler"))
    /\ running' = c
    /\ UNCHANGED <<git_enabled, callers, clock>>

\* commit_hash = self._commit_changes(commit_message, fix_result.modified_files)
CommitFix(c) ==
    /\ CanRun(c)
    /\ frame[c].pc = "he_commit"
    /\ \E fault \in 0..3 :
          LET cc == CommitChanges(repo, frame[c].fix_result.modified_files, fault)
          IN /\ repo' = cc.repo
             /\ IF cc.raised
                THEN Set(c, [frame[c] EXCEPT !.exc = "git_error", !.pc = "he_except"],
                            Logged([hist[c] EXCEPT !.vc_failed = TRUE], "commit"))
                ELSE Set(c, [frame[c] EXCEPT !.fix_result.commit_hash = cc.hash,
                                             !.pc = "he_merge"],
                            Logged([hist[c] EXCEPT
                                      !.staged = frame[c].fix_result.modified_files],
                                   "commit"))
    /\ running' = c
    /\ UNCHANGED <<git_enabled, callers, clock>>

\* self._merge_branch(branch_name); return fix_result
MergeFix(c) ==
    /\ CanRun(c)
    /\ frame[c].pc = "he_merge"
    /\ \E fault \in 0..4 :
          LET mb == MergeBranch(repo, frame[c].branch_name, fault)
          IN /\ repo' = mb.repo
             /\ IF mb.raised
                THEN Set(c, [frame[c] EXCEPT !.exc = "git_error", !.pc = "he_except"],
                            Logged([hist[c] EXCEPT !.vc_failed = TRUE], "merge"))
                ELSE Set(c, [frame[c] EXCEPT !.pc = "he_done"],
                            Logged([hist[c] EXCEPT !.outcome = "committed"], "merge"))
    /\ running' = c
    /\ UNCHANGED <<git_enabled, callers, clock>>

\* elif self.git_enabled: self._abandon_branch(branch_name); return fix_result
\* (inside the try block)
AbandonFailedFix(c) ==
    /\ CanRun(c)
    /\ frame[c].pc = "he_abandon"
    /\ \E fault \in 0..3 :
          LET ab == AbandonBranch(repo, frame[c].branch_name, fault)
          IN /\ repo' = ab.repo
             /\ IF ab.raised
                THEN Set(c, [frame[c] EXCEPT !.exc = "git_error", !.pc = "he_except"],
                            Logged([hist[c] EXCEPT !.vc_failed = TRUE], "abandon"))
                ELSE Set(c, [frame[c] EXCEPT !.pc = "he_done"],
                            Logged([hist[c] EXCEPT !.outcome = "abandoned"], "abandon"))
    /\ running' = c
    /\ UNCHANGED <<git_enabled, callers, clock>>

\* except Exception as e: abandon the branch when git is enabled and return
\* ErrorFixResult(success=False, "Failed to auto-fix error: {e}", ...)
ExceptFix(c) ==
    /\ CanRun(c)
    /\ frame[c].pc = "he_except"
    /\ LET failed == FixResult(FALSE, <<>>, "failed_fix_attempt", frame[c].exc)
       IN IF git_enabled
          THEN \E fault \in 0..3 :
                 LET ab == AbandonBranch(repo, frame[c].branch_name, fault)
                 IN /\ repo' = ab.repo
                    /\ IF ab.raised
                       THEN /\ Set(c, Crash([frame[c] EXCEPT !.exc = "git_error"]),
                                      Logged([hist[c] EXCEPT !.vc_failed = TRUE,
                                                             !.outcome = "raised"], "abandon"))
                            /\ running' = 0
                       ELSE /\ Set(c, [frame[c] EXCEPT !.fix_result = failed, !.pc = "he_done"],
                                      Logged([hist[c] EXCEPT !.outcome = "abandoned"], "abandon"))
                            /\ running' = c
          ELSE /\ repo' = repo
               /\ Set(c, [frame[c] EXCEPT !.fix_result = failed, !.pc = "he_done"],
                         [hist[c] EXCEPT !.outcome = "no_git"])
               /\ running' = c
    /\ UNCHANGED <<git_enabled, callers, clock>>

\* else: the error type is not in the table: abandon the branch when git is
\* enabled and return ErrorFixResult(success=False, "Cannot auto-fix ...")
NotFixable(c) ==
    /\ CanRun(c)
    /\ frame[c].pc = "he_not_fixable"
    /\ LET cannot == FixResult(FALSE, <<>>, "error_not_auto_fixable", frame[c].error_type)
       IN IF git_enabled
          THEN \E fault \in 0..3 :
                 LET ab == AbandonBranch(repo, frame[c].branch_name, fault)
                 IN /\ repo' = ab.repo
                    /\ IF ab.raised
                       THEN /\ Set(c, Crash([frame[c] EXCEPT !.exc = "git_error"]),
                                      Logged([hist[c] EXCEPT !.vc_failed = TRUE,
                                                             !.outcome = "raised"], "abandon"))
                            /\ running' = 0
                       ELSE /\ Set(c, [frame[c] EXCEPT !.fix_result = cannot, !.pc = "he_done"],
                                      Logged([hist[c] EXCEPT !.outcome = "abandoned"], "abandon"))
                            /\ running' = c
          ELSE /\ repo' = repo
               /\ Set(c, [frame[c] EXCEPT !.fix_result = cannot, !.pc = "he_done"],
                         [hist[c] EXCEPT !.outcome = "no_git"])
               /\ running' = c
    /\ UNCHANGED <<git_enabled, callers, clock>>

(***************************************************************************)
(* Specifications of the fixer and its loop                                *)
(***************************************************************************)
Next ==
    /\ \E c \in callers :
          \/ RunCommand(c)
          \/ LoopTest(c)
          \/ BeginHandleError(c)
          \/ AnalyzeError(c)
          \/ Dispatch(c)
          \/ RunFix(c)
          \/ CommitFix(c)
          \/ MergeFix(c)
          \/ AbandonFailedFix(c)
          \/ ExceptFix(c)
          \/ NotFixable(c)
          \/ AfterFix(c)
          \/ RetryCommand(c)
    /\ UNCHANGED <<detector, executor, ranking, resolver, otherVars>>

\* the verification loop driving the fixer, one command at a time
Spec == Init /\ [][Next]_vars

\* two verification loops sharing the handler's resolver and working tree
SpecConc == InitConc /\ [][Next]_vars

(***************************************************************************)
(* Properties of the checkpointed fixer and the verification loop          *)
(***************************************************************************)
\* the handle_error call of c has ended: it returned its result (he_done)
\* or an exception left it (crashed)
Ended(c) == frame[c].pc \in {"he_done", "crashed"}

\* run_with_auto_fix of c has ended, by return or by exception
Finished(c) == frame[c].pc \in {"returned", "crashed"}

\* c is inside a fix attempt: past the branch creation, not yet ended
InAttempt(c) ==
    frame[c].pc \in {"he_analyzing", "he_dispatch", "he_fix", "he_commit", "he_merge",
                     "he_abandon", "he_except", "he_not_fixable"}

\* the method of AutoErrorResolver that implements a strategy of the table
StrategyMethod(strategy) ==
    CASE strategy = "install_dependency"         -> "_fix_install_dependency"
      [] strategy = "create_missing_file_or_dir" -> "_fix_create_missing_file_or_dir"
      [] strategy = "fix_permissions"            -> "_fix_permissions"
      [] strategy = "fix_react_hook"             -> "_fix_react_hook"
      [] strategy = "add_null_check"             -> "_fix_add_null_check"
      [] strategy = "fix_syntax"                 -> "_fix_syntax"
      [] strategy = "init_git_repo"              -> "_fix_init_git_repo"

\* C1: a handle_error call with version control enabled that ends Abandoned
\* because the handler reported failure, the handler raised or the error
\* type is not in the strategy table leaves the working tree (files and
\* contents) as it was before the call.
C1_AbandonedRestoresTree ==
    \A c \in callers :
        ( /\ git_enabled
          /\ frame[c].pc = "he_done"
          /\ hist[c].outcome = "abandoned"
          /\ \/ hist[c].reported \in {"failure", "raised"}
             \/ frame[c].error_type \notin DOMAIN AUTOFIXABLE_ERRORS )
        => repo.tree = hist[c].pre_tree

\* C2: a handle_error call with version control enabled that created a fix
\* branch ends, by return or by exception, with the fix branch merged and
\* deleted or deleted without merge, and not checked out.
C2_TerminalGitState ==
    \A c \in callers :
        (git_enabled /\ Ended(c) /\ hist[c].created)
        => /\ hist[c].outcome \in {"committed", "abandoned"}
           /\ repo.branches[frame[c].branch_name] = 0
           /\ repo.head # frame[c].branch_name

\* C3: when the dispatched handler reports success and version control is
\* enabled, the call ends Committed: the reported modified_files were
\* staged, a commit was made, the result has success = true and a commit
\* hash, and the fix branch is merged and deleted.
C3_SuccessIsCommitted ==
    \A c \in callers :
        (git_enabled /\ Ended(c) /\ hist[c].reported = "success")
        => /\ frame[c].pc = "he_done"
           /\ hist[c].outcome = "committed"
           /\ frame[c].fix_result.success
           /\ frame[c].fix_result.commit_hash # 0
           /\ hist[c].staged = frame[c].fix_result.modified_files
           /\ repo.branches[frame[c].branch_name] = 0

\* C4: for every error type of the strategy table, handle_error runs the
\* handler that implements the mapped strategy; no entry resolves to a
\* missing handler.
C4_DispatchRunsMappedHandler ==
    \A c \in callers :
        (Ended(c) /\ frame[c].error_type \in DOMAIN AUTOFIXABLE_ERRORS)
        => hist[c].ran = StrategyMethod(AUTOFIXABLE_ERRORS[frame[c].error_type])

\* C5: an exception raised while the handler runs never leaves
\* handle_error: the call returns a result with success = false whose
\* description carries the exception message, and the attempt is abandoned.
C5_HandlerExceptionCaught ==
    \A c \in callers :
        (Ended(c) /\ hist[c].reported = "raised")
        => /\ frame[c].pc = "he_done"
           /\ ~frame[c].fix_result.success
           /\ frame[c].fix_result.message = "handler_error"
           /\ git_enabled => hist[c].outcome = "abandoned"

\* C6: a version-control failure at any step of a fix attempt (branch
\* creation, staging or commit, merge, branch deletion) makes handle_error
\* return a result with success = false, the attempt ends Abandoned and no
\* exception leaves handle_error.
C6_VcFailureAbandons ==
    \A c \in callers :
        (Ended(c) /\ hist[c].vc_failed)
        => /\ frame[c].pc = "he_done"
           /\ ~frame[c].fix_result.success
           /\ hist[c].outcome = "abandoned"

\* C7: after an attempt ended Abandoned with version control enabled, the
\* checked-out branch is the one that was checked out before the call and
\* the fix branch no longer exists.
C7_AbandonRestoresBranch ==
    \A c \in callers :
        (git_enabled /\ frame[c].pc = "he_done" /\ hist[c].outcome = "abandoned")
        => /\ repo.head = hist[c].pre_head
           /\ repo.branches[frame[c].branch_name] = 0

\* C8: at most one fix attempt is active on a resolver at any time: a
\* handle_error call made while another one is suspended is queued or
\* rejected, so that the git operations of two attempts never interleave.
C8_OneActiveAttempt ==
    Cardinality({c \in callers : InAttempt(c)}) <= 1

\* C9: within one handle_error call with version control enabled the fix
\* branch is created before classification and dispatch, the handler has
\* run before any commit, merge or branch deletion, and nothing of the
\* handler happens before the branch creation or after commit or abandon.
C9_AttemptOrdering ==
    \A c \in callers :
        LET l == hist[c].log
        IN \A i \in 1..Len(l) :
              /\ (git_enabled /\ l[i] \in {"classify", "dispatch", "handler"})
                    => \E j \in 1..(i - 1) : l[j] = "branch"
              /\ l[i] \in {"dispatch", "handler"}
                    => \E j \in 1..(i - 1) : l[j] = "classify"
              /\ l[i] \in {"commit", "merge"}
                    => \E j \in 1..(i - 1) : l[j] = "handler"
              /\ l[i] \in {"commit", "merge", "abandon"}
                    => \A j \in (i + 1)..Len(l) :
                          l[j] \notin {"branch", "classify", "dispatch", "handler"}

\* a call with version control enabled went through branch creation,
\* classification, dispatch, the handler, the commit and the merge
C9_Witness ==
    \E c \in callers :
        /\ git_enabled
        /\ frame[c].pc = "he_done"
        /\ hist[c].log = <<"branch", "classify", "dispatch", "handler", "commit", "merge">>

\* C10: run_with_auto_fix(command, max_fix_attempts = N) on a command that
\* fails on every execution invokes handle_error exactly N times and then
\* returns false.
C10_ExhaustsAttempts ==
    \A c \in callers :
        (Finished(c) /\ hist[c].good_runs = 0)
        => /\ hist[c].calls = frame[c].max_fix_attempts
           /\ frame[c].ret = "false"

\* C11: in run_with_auto_fix the command is executed again only directly
\* after a handle_error call that returned success = true (so never between
\* a failed fix attempt and the next one), and true is returned only when an
\* execution of the command itself succeeded.
C11_RetryOnlyAfterFix ==
    /\ [](\A c \in callers :
             frame[c].ret = "true" => frame[c].success /\ hist[c].good_runs >= 1)
    /\ [][\A c \in callers :
             (hist[c].runs >= 1 /\ hist'[c].runs > hist[c].runs)
             => /\ hist[c].calls >= 1
                /\ hist'[c].calls = hist[c].calls
                /\ ~InAttempt(c) /\ frame[c].pc # "he_begin"
                /\ frame[c].fix_result.success]_vars

\* a first fix attempt failed and was followed by the second attempt with
\* no execution in between; the second succeeded, the command was run again
\* and succeeded, and true was returned
C11_Witness ==
    \E c \in callers :
        /\ frame[c].pc = "returned" /\ frame[c].ret = "true"
        /\ hist[c].calls = 2 /\ hist[c].runs = 2

\* C12: when the classified error type is not in the strategy table,
\* handle_error runs no strategy handler and gives no command to the shell
\* command runner, returns success = false with the reason that the type
\* cannot be auto-fixed, and with version control enabled abandons the fix
\* branch.
C12_NotFixableReturnsFailure ==
    \A c \in callers :
        ( /\ Ended(c)
          /\ frame[c].error_type # ""
          /\ frame[c].error_type \notin DOMAIN AUTOFIXABLE_ERRORS )
        => /\ hist[c].ran = "" /\ ~hist[c].issued
           /\ frame[c].pc = "he_done"
           /\ ~frame[c].fix_result.success
           /\ frame[c].fix_result.action_taken = "error_not_auto_fixable"
           /\ frame[c].fix_result.message = frame[c].error_type
           /\ git_enabled => /\ hist[c].outcome = "abandoned"
                             /\ repo.branches[frame[c].branch_name] = 0

(***************************************************************************)
(* ErrorDetector.analyze_error.  An error text is [matches, group, pieces]: *)
(* matches = the patterns of the table whose expression finds a match,     *)
(* group = what the first group of the deciding pattern captured, pieces = *)
(* the text cut into runs of whitespace and runs of other characters.      *)
(***************************************************************************)
\* description of self.patterns, by error_type
PatternDescription ==
    [t \in {PatternOrder[i] : i \in 1..Len(PatternOrder)} |->
        CASE t = "python_import_error"        -> "Python module import error"
          [] t = "python_module_not_found"    -> "Python module not found"
          [] t = "python_syntax_error"        -> "Python syntax error"
          [] t = "python_type_error"          -> "Python type error"
          [] t = "python_value_error"         -> "Python value error"
          [] t = "python_attribute_error"     -> "Python attribute error"
          [] t = "shell_command_not_found"    -> "Shell command not found"
          [] t = "file_not_found"             -> "File or directory not found"
          [] t = "permission_denied"          -> "Permission denied for file or directory"
          [] t = "git_not_a_repo"             -> "Not a git repository"
          [] t = "git_connection_error"       -> "Git connection or SSL error"
          [] t = "git_push_error"             -> "Git push error"
          [] t = "pip_package_not_found"      -> "Pip could not find the package"
          [] t = "timeout_error"              -> "Operation timed out"
          [] t = "memory_error"               -> "Process ran out of memory"
          [] t = "segmentation_fault"         -> "Segmentation fault (memory access violation)"
          [] t = "react_hook_conditional"     -> "React Hook called conditionally"
          [] t = "react_invalid_element"      -> "React invalid element type"
          [] t = "js_undefined_property"      -> "JavaScript undefined property access"
          [] t = "react_module_not_found"     -> "React module resolution error"
          [] t = "npm_package_not_found"      -> "NPM package not found"
          [] t = "npm_invalid_self_operation" -> "NPM invalid self operation"
          [] t = "npm_permission_error"       -> "NPM permission error"]

\* search_query of self.patterns with {0} replaced by the group, by error_type
PatternQuery(t, group) ==
    CASE t = "python_import_error"        -> "python ImportError " \o group
      [] t = "python_module_not_found"    -> "python ModuleNotFoundError " \o group
      [] t = "python_syntax_error"        -> "python SyntaxError"
      [] t = "python_type_error"          -> "python TypeError " \o group
      [] t = "python_value_error"         -> "python ValueError " \o group
      [] t = "python_attribute_error"     -> "python AttributeError " \o group
      [] t = "shell_command_not_found"    -> "command not found " \o group
      [] t = "file_not_found"             -> "no such file or directory"
      [] t = "permission_denied"          -> "shell permission denied"
      [] t = "git_not_a_repo"             -> "git fatal not a repository"
      [] t = "git_connection_error"       -> "git connection error SSL certificate"
      [] t = "git_push_error"             -> "git failed to push refs"
      [] t = "pip_package_not_found"      -> "pip could not find version requirement " \o group
      [] t = "timeout_error"              -> "command timeout error"
      [] t = "memory_error"               -> "process memory error"
      [] t = "segmentation_fault"         -> "segmentation fault"
      [] t = "react_hook_conditional"     -> "react hook called conditionally error"
      [] t = "react_invalid_element"      -> "react invalid element type error"
      [] t = "js_undefined_property"      ->
             "javascript cannot read property " \o group \o " of undefined"
      [] t = "react_module_not_found"     -> "react can't resolve module " \o group
      [] t = "npm_package_not_found"      -> "npm package not found 404"
      [] t = "npm_invalid_self_operation" -> "npm ENOSELF error"
      [] t = "npm_permission_error"       -> "npm permission error EPERM"

\* the runs of whitespace a text is cut at
Whitespace == {" ", "\n"}

\* error_text.split(): the runs that are not whitespace, in order
Split(pieces) == SelectSeq(pieces, LAMBDA p : p \notin Whitespace)

\* a cut that keeps every token
AllTokens(tokens) == tokens

\* tokens[:10]
FirstTen(tokens) == SubSeq(tokens, 1, IF Len(tokens) < 10 THEN Len(tokens) ELSE 10)

RECURSIVE JoinSpace(_)
\* ' '.join(tokens)
JoinSpace(tokens) ==
    IF tokens = <<>> THEN ""
    ELSE IF Len(tokens) = 1 THEN tokens[1]
    ELSE tokens[1] \o " " \o JoinSpace(Tail(tokens))

\* f"error {return_code} {' '.join(error_text.split()[:10])}"
UnknownQuery(return_code, pieces) ==
    "error " \o ToString(return_code) \o " " \o JoinSpace(FirstTen(Split(pieces)))

\* ErrorDetector.analyze_error(command, return_code, error_text): the fields
\* of the ErrorAnalysis it returns
DetectorAnalysis(return_code, text) ==
    LET i == DetectError(text.matches, 1)
    IN IF i # 0
       THEN [error_type |-> PatternOrder[i],
             description |-> PatternDescription[PatternOrder[i]],
             search_query |-> PatternQuery(PatternOrder[i], text.group)]
       ELSE [error_type |-> "unknown_error",
             description |-> "Unknown error",
             search_query |-> UnknownQuery(return_code, text.pieces)]

\* the i-th token of a text
Word(i) == "w" \o ToString(i)

RECURSIVE Pieces(_, _, _)
\* a text of n tokens: lead = it starts with whitespace, gap = the number of
\* whitespace runs ("\n" then " ") between two tokens and after the last
Pieces(n, lead, gap) ==
    IF n = 0 THEN IF lead THEN <<" ">> ELSE <<>>
    ELSE Pieces(n - 1, lead, gap) \o <<Word(n)>> \o
         (IF gap = 2 THEN <<"\n", " ">> ELSE <<" ">>)

\* the pattern sets of the texts: none, one, or two patterns match
DetectorMatchSets ==
    {{}} \cup {{PatternOrder[i], PatternOrder[j]} : i, j \in 1..Len(PatternOrder)}

\* the return codes of a failed command: killed, general, not found
ReturnCodes == {-1, 1, 127}

\* texts no pattern matches, of every length and layout, and three-token
\* texts for every pattern set, with and without a captured group
DetectorInputs ==
    {[return_code |-> rc,
      text |-> [matches |-> {}, group |-> "", words |-> n, pieces |-> Pieces(n, lead, gap)]] :
        rc \in ReturnCodes, n \in 0..MaxWords, lead \in BOOLEAN, gap \in 1..2}
    \cup
    {[return_code |-> 1,
      text |-> [matches |-> m, group |-> g, words |-> 3, pieces |-> Pieces(3, FALSE, 1)]] :
        m \in DetectorMatchSets \ {{}}, g \in {"", "requests"}}

\* the fixer at rest: no run_with_auto_fix coroutine exists
IdleFixer ==
    /\ repo = CHOOSE r \in InitRepos : r.head = "main" /\ r.tree["package-lock.json"] = 0
    /\ git_enabled = FALSE
    /\ callers = {}
    /\ running = 0
    /\ clock = 0
    /\ frame = <<>>
    /\ hist = <<>>

InitDetector ==
    /\ IdleFixer
    /\ detector \in {[pc |-> "called", return_code |-> i.return_code, text |-> i.text,
                      analysis |-> [error_type |-> "", description |-> "",
                                    search_query |-> ""]] :
                       i \in DetectorInputs}
    /\ executor = Idle /\ ranking = Idle /\ resolver = Idle
    /\ IdleOthers

\* the one step of analyze_error: it has no await and no exception handler
DetectorAnalyze ==
    /\ detector.pc = "called"
    /\ detector' = [detector EXCEPT
                      !.pc = "returned",
                      !.analysis = DetectorAnalysis(detector.return_code, detector.text)]
    /\ UNCHANGED <<fixerVars, executor, ranking, resolver, otherVars>>

NextDetector == DetectorAnalyze

\* ErrorDetector.analyze_error on every error text of the input set
SpecDetector == InitDetector /\ [][NextDetector]_vars

\* C14: for every error text, analyze_error returns the error_type and the
\* description of the first pattern in declaration order that matches the
\* text; patterns later in the table never change the result (a text that
\* matches both permission_denied and npm_permission_error is typed
\* permission_denied).
C14_FirstMatchWins ==
    detector.pc = "returned" =>
        \A i \in 1..Len(PatternOrder) :
            ( /\ PatternOrder[i] \in detector.text.matches
              /\ \A j \in 1..(i - 1) : PatternOrder[j] \notin detector.text.matches )
            => /\ detector.analysis.error_type = PatternOrder[i]
               /\ detector.analysis.description = PatternDescription[PatternOrder[i]]

\* analyze_error returned for the text with both 'Permission denied' and
\* 'npm ERR! code EPERM'
C14_Witness ==
    /\ detector.pc = "returned"
    /\ detector.text.matches = {"permission_denied", "npm_permission_error"}
    /\ detector.analysis.error_type = "permission_denied"

\* C15: analyze_error returns an analysis for every (command, return_code,
\* error_text); when no pattern matches, error_type is unknown_error and
\* search_query is "error", the return code and the first ten
\* whitespace-separated tokens of the text (all of them when it has fewer).
C15_UnknownErrorQuery ==
    /\ detector.pc \in {"called", "returned"}
    /\ (detector.pc = "returned" /\ detector.text.matches = {}) =>
          LET n == detector.text.words
              k == IF n < 10 THEN n ELSE 10
          IN /\ detector.analysis.error_type = "unknown_error"
             /\ detector.analysis.search_query =
                   "error " \o ToString(detector.return_code) \o " " \o
                   JoinSpace([i \in 1..k |-> Word(i)])

\* analyze_error returned for an unmatched text of more than ten tokens
C15_Witness ==
    /\ detector.pc = "returned"
    /\ detector.text.matches = {}
    /\ detector.text.words > 10
    /\ detector.analysis.error_type = "unknown_error"

(***************************************************************************)
(* Strings, as str.lower(), `in` and str.startswith() treat them           *)
(***************************************************************************)
UpperLetters == "ABCDEFGHIJKLMNOPQRSTUVWXYZ"
LowerLetters == "abcdefghijklmnopqrstuvwxyz"

Char(s, i) == SubSeq(s, i, i)

LowerChar(ch) ==
    IF \E i \in 1..Len(UpperLetters) : Char(UpperLetters, i) = ch
    THEN Char(LowerLetters, CHOOSE i \in 1..Len(UpperLetters) : Char(UpperLetters, i) = ch)
    ELSE ch

RECURSIVE ToLower(_)
\* s.lower()
ToLower(s) ==
    IF s = "" THEN "" ELSE LowerChar(Char(s, 1)) \o ToLower(SubSeq(s, 2, Len(s)))

\* sub in s
Contains(s, sub) ==
    \E i \in 1..(Len(s) - Len(sub) + 1) : SubSeq(s, i, i + Len(sub) - 1) = sub

\* s.startswith(prefix)
StartsWith(s, prefix) == Len(s) >= Len(prefix) /\ SubSeq(s, 1, Len(prefix)) = prefix

(***************************************************************************)
(* CommandExecutor.execute.  executor is [pc, command, which, has_timeout, *)
(* spawned, timed_out, proc, child, exit_code, result]: proc is the shell  *)
(* process create_subprocess_shell made ("none", "running", "signalled" =  *)
(* SIGKILL sent and not yet acted on, "exited"), child the process that    *)
(* shell forked for the command, when it did not exec it in place.         *)
(***************************************************************************)
BLOCKED_COMMANDS ==
    << "rm -rf /", "rm -rf /*", "mkfs", "dd if=/dev/zero",
       "> /dev/sda", "chmod -R 777 /", ":(){:|:&};:" >>

\* _validate_command: "blocked" and "not_found" are its two ValueErrors;
\* which = shutil.which finds the first word of the command
ValidateCommand(command, which) ==
    LET command_lower == ToLower(command)
    IN IF \E i \in 1..Len(BLOCKED_COMMANDS) : Contains(command_lower, BLOCKED_COMMANDS[i])
       THEN "blocked"
       ELSE IF (StartsWith(command, "/bin/") \/ StartsWith(command, "/usr/bin/")) /\ ~which
       THEN "not_found"
       ELSE "ok"

\* the commands given to execute: every deny-list entry as written, in
\* upper case and inside a longer command, and commands that match no entry
ExecCommands ==
    {"rm -rf /", "RM -RF /", "sudo rm -rf / --no-preserve-root", "rm -rf /*",
     "mkfs", "MKFS.ext4 /dev/sdb1", "dd if=/dev/zero of=/dev/sdb", "DD IF=/dev/zero",
     "echo x > /dev/sda", "chmod -R 777 /", "CHMOD -R 777 /", "chmod -r 777 /",
     ":(){:|:&};:", "ls -la", "sleep 10", "cd app && npm install", "/bin/nosuch"}

NoExecResult == [success |-> FALSE, return_code |-> 0, stderr |-> ""]

InitExecutor ==
    /\ IdleFixer
    /\ executor \in {[pc |-> "called", command |-> c, which |-> w, has_timeout |-> t,
                      spawned |-> FALSE, timed_out |-> FALSE, proc |-> "none",
                      child |-> "none", exit_code |-> 0, result |-> NoExecResult] :
                       c \in ExecCommands, w \in BOOLEAN, t \in BOOLEAN}
    /\ detector = Idle /\ ranking = Idle /\ resolver = Idle
    /\ IdleOthers

ExecStep(e) ==
    /\ executor' = e
    /\ UNCHANGED <<fixerVars, detector, ranking, resolver, otherVars>>

\* self._validate_command(command), before the try block: its ValueError
\* leaves execute
ExecValidate ==
    /\ executor.pc = "called"
    /\ ExecStep([executor EXCEPT
                   !.pc = IF ValidateCommand(executor.command, executor.which) = "ok"
                          THEN "validated" ELSE "raised"])

\* process = await asyncio.create_subprocess_shell(command, ...); an OSError
\* is caught by except Exception
ExecSpawn ==
    /\ executor.pc = "validated"
    /\ \/ \E forked \in BOOLEAN :
            ExecStep([executor EXCEPT !.pc = "waiting", !.spawned = TRUE,
                                      !.proc = "running",
                                      !.child = IF forked THEN "running" ELSE "none"])
       \/ ExecStep([executor EXCEPT
                      !.pc = "returned",
                      !.result = [success |-> FALSE, return_code |-> -1,
                                  stderr |-> "Error executing command"]])

\* the command, run by a child of the shell, ends
ChildExit ==
    /\ executor.pc # "idle"
    /\ executor.child = "running"
    /\ ExecStep([executor EXCEPT !.child = "exited"])

\* the shell ends once the command has: with the command's exit status
ShellExit ==
    /\ executor.pc # "idle"
    /\ executor.proc = "running" /\ executor.child # "running"
    /\ \E code \in {0, 1} :
          ExecStep([executor EXCEPT !.proc = "exited", !.exit_code = code])

\* the kernel acts on the SIGKILL sent to the shell
SignalDelivered ==
    /\ executor.pc # "idle"
    /\ executor.proc = "signalled"
    /\ ExecStep([executor EXCEPT !.proc = "exited", !.exit_code = -9])

\* stdout, stderr = await wait_for(process.communicate(), timeout) returns
ExecCommunicate ==
    /\ executor.pc = "waiting" /\ executor.proc = "exited"
    /\ ExecStep([executor EXCEPT
                   !.pc = "returned",
                   !.result = [success |-> executor.exit_code = 0,
                               return_code |-> executor.exit_code,
                               stderr |-> "output of the command"]])

\* wait_for raises asyncio.TimeoutError: communicate() has not returned
ExecTimeout ==
    /\ executor.pc = "waiting" /\ executor.has_timeout
    /\ ExecStep([executor EXCEPT !.pc = "timeout", !.timed_out = TRUE])

\* process.kill(): SIGKILL to the shell process; ProcessLookupError, which
\* is ignored, when it has already ended
Kill(proc) == IF proc = "running" THEN "signalled" ELSE proc

ExecKill ==
    /\ executor.pc = "timeout"
    /\ ExecStep([executor EXCEPT !.pc = "killed", !.proc = Kill(executor.proc)])

\* resources = self.process_monitor.stop(process.pid); return the
\* ExecutionResult of the timeout (no await process.wait() in between)
ExecReturnTimeout ==
    /\ executor.pc = "killed"
    /\ ExecStep([executor EXCEPT
                   !.pc = "returned",
                   !.result = [success |-> FALSE, return_code |-> -1,
                               stderr |-> "Command timed out"]])

NextExecutor ==
    \/ ExecValidate
    \/ ExecSpawn
    \/ ChildExit
    \/ ShellExit
    \/ SignalDelivered
    \/ ExecCommunicate
    \/ ExecTimeout
    \/ ExecKill
    \/ ExecReturnTimeout

\* one execute call, with the processes it creates
SpecExecutor == InitExecutor /\ [][NextExecutor]_vars

\* some deny-list entry occurs in the command, letter case ignored
MatchesDenyList(command) ==
    \E i \in 1..Len(BLOCKED_COMMANDS) :
        Contains(ToLower(command), ToLower(BLOCKED_COMMANDS[i]))

\* C16: execute never creates a process for a command that matches an entry
\* of BLOCKED_COMMANDS, for every entry and whatever the letter case of the
\* command: the check rejects it before the subprocess is created.
C16_DenyListBlocksSpawn ==
    executor.pc # "idle" =>
        (MatchesDenyList(executor.command) =>
            ~executor.spawned /\ executor.pc \in {"called", "raised"})

\* C17: when the command does not finish within the timeout, execute
\* returns success = false, return_code = -1 and a stderr text saying that
\* the command timed out, and when it returns the process it started is no
\* longer running.
C17_TimeoutKillsProcess ==
    (executor.pc = "returned" /\ executor.timed_out) =>
        /\ ~executor.result.success
        /\ executor.result.return_code = -1
        /\ executor.result.stderr = "Command timed out"
        /\ executor.proc = "exited"
        /\ executor.child # "running"

(***************************************************************************)
(* ErrorSearcher._score_and_rank_results.  A search result is [id, source, *)
(* question, code, keyword, metrics]: question = the title has a "?" and   *)
(* is_answered is false, code = the snippet has "<code>" or a code fence,  *)
(* keyword = the snippet has "solution" or "fixed", metrics = the          *)
(* SearchResultMetrics record, <<>> when the result has none.  Sub-scores  *)
(* are counted in tenths and composite scores in thousandths, so that the  *)
(* weighted sums are integers.                                             *)
(***************************************************************************)
Metrics(rel, auth, rec, comm, comp, composite) ==
    [relevance |-> rel, authority |-> auth, recency |-> rec, community |-> comm,
     completeness |-> comp, composite |-> composite]

\* SearchResultMetrics(5.0, 5.0, 5.0, 5.0, 5.0, composite_score=5.0)
DefaultMetrics == Metrics(50, 50, 50, 50, 50, 5000)

\* relevance * 0.3 + authority * 0.25 + recency * 0.15 + community * 0.2
\* + completeness * 0.1
Composite(m) ==
    m.relevance * 30 + m.authority * 25 + m.recency * 15 + m.community * 20
    + m.completeness * 10

\* the two loops over results: default metrics, the content-aware
\* adjustments, and the composite score computed anew
Adjust(result) ==
    LET m0 == IF result.metrics = <<>> THEN DefaultMetrics ELSE result.metrics
        m1 == [m0 EXCEPT !.completeness = IF result.code THEN @ + 20 ELSE @]
        m2 == [m1 EXCEPT !.relevance = IF result.keyword THEN @ + 10 ELSE @]
        m3 == [m2 EXCEPT !.composite = IF result.question THEN @ - 2000 ELSE @]
    IN [result EXCEPT !.metrics = [m3 EXCEPT !.composite = Composite(m3)]]

RECURSIVE InsertDesc(_, _)
\* x put behind every element whose composite score is not smaller
InsertDesc(sorted, x) ==
    IF sorted = <<>> THEN <<x>>
    ELSE IF Head(sorted).metrics.composite >= x.metrics.composite
    THEN <<Head(sorted)>> \o InsertDesc(Tail(sorted), x)
    ELSE <<x>> \o sorted

RECURSIVE SortDesc(_)
\* sorted(results, key=composite_score, reverse=True): a stable sort
SortDesc(results) ==
    IF results = <<>> THEN <<>>
    ELSE InsertDesc(SortDesc(SubSeq(results, 1, Len(results) - 1)), results[Len(results)])

\* the objects of the list after the call: adjusted in place, order kept
AdjustAll(results) == [i \in 1..Len(results) |-> Adjust(results[i])]

\* _score_and_rank_results(results, query): the list it returns
ScoreAndRankResults(results) == SortDesc(AdjustAll(results))

\* the metrics _search_stack_overflow computes: authority 9.0 and its own
\* weights for the composite score
StackOverflowMetrics(rel, rec, comm, comp) ==
    Metrics(rel, 90, rec, comm, comp, rel * 30 + 90 * 20 + rec * 15 + comm * 25 + comp * 10)

\* metrics as the providers compute them: an accepted, recent, well voted
\* Stack Overflow question; an old unanswered one; none
ProviderMetrics ==
    {<<>>, StackOverflowMetrics(100, 100, 100, 100), StackOverflowMetrics(70, 20, 0, 0)}

\* the results a provider returns, before they get their id
ResultKinds ==
    [source : {"stackoverflow"}, question : BOOLEAN, code : BOOLEAN, keyword : BOOLEAN,
     metrics : ProviderMetrics]

WithIds(kinds) ==
    [i \in 1..Len(kinds) |->
        [id |-> i, source |-> kinds[i].source, question |-> kinds[i].question,
         code |-> kinds[i].code, keyword |-> kinds[i].keyword,
         metrics |-> kinds[i].metrics]]

Ids(results) == [i \in 1..Len(results) |-> results[i].id]

InitRanking ==
    /\ IdleFixer
    /\ ranking \in {[pc |-> "supplied", supplied |-> WithIds(k), results |-> WithIds(k),
                     first |-> <<>>, second |-> <<>>, other |-> <<>>] :
                      k \in UNION {[1..n -> ResultKinds] : n \in 1..MaxResults}}
    /\ detector = Idle /\ executor = Idle /\ resolver = Idle
    /\ IdleOthers

RankStep(r) ==
    /\ ranking' = r
    /\ UNCHANGED <<fixerVars, detector, executor, resolver, otherVars>>

\* the ranking pass on the supplied list; the list's objects are changed
RankResults ==
    /\ ranking.pc = "supplied"
    /\ RankStep([ranking EXCEPT !.pc = "ranked",
                                !.first = ScoreAndRankResults(ranking.results),
                                !.results = AdjustAll(ranking.results)])

\* the ranking pass once more, on the list the first pass returned
RankAgain ==
    /\ ranking.pc = "ranked"
    /\ RankStep([ranking EXCEPT !.pc = "reranked",
                                !.second = ScoreAndRankResults(ranking.first)])

\* the ranking pass on the same candidates supplied in another order
RankReordered ==
    /\ ranking.pc = "ranked"
    /\ \E p \in Permutations(1..Len(ranking.supplied)) :
          RankStep([ranking EXCEPT
                      !.pc = "reordered",
                      !.other = ScoreAndRankResults(
                                   [i \in 1..Len(ranking.supplied) |->
                                       ranking.supplied[p[i]]])])

NextRanking ==
    \/ RankResults
    \/ RankAgain
    \/ RankReordered

\* the ranking pass on result lists of up to MaxResults results
SpecRanking == InitRanking /\ [][NextRanking]_vars

\* C18: applying the ranking pass a second time to the candidates it was
\* already applied to gives the same order and the same scores as the first
\* application, and the order of the output does not depend on the order
\* in which the candidates were supplied.
C18_RankingRepeatable ==
    /\ ranking.pc = "reranked" => ranking.second = ranking.first
    /\ ranking.pc = "reordered" => Ids(ranking.other) = Ids(ranking.first)

(***************************************************************************)
(* ErrorResolver: solution templates and their variables.  The error text  *)
(* is [matches, module, file_path, directory_path, npm_package,            *)
(* component_name]: matches as for the detector, the other fields what the *)
(* resolver's expression for that variable captures ("" = no match).       *)
(***************************************************************************)
Solution(description, command, variables) ==
    [description |-> description, has_command |-> TRUE, command |-> command,
     has_variables |-> TRUE, variables |-> variables]

\* a solution with a command and no "variables" key
Command(description, command) ==
    [description |-> description, has_command |-> TRUE, command |-> command,
     has_variables |-> FALSE, variables |-> <<>>]

\* a solution that is a description only
Advice(description) ==
    [description |-> description, has_command |-> FALSE, command |-> "",
     has_variables |-> FALSE, variables |-> <<>>]

\* ErrorDetector.get_common_solutions(error_type)
CommonSolutions(error_type) ==
    CASE error_type = "python_import_error" ->
             << Solution("Install the missing package", "pip install {package_name}",
                         <<"package_name">>) >>
      [] error_type = "python_module_not_found" ->
             << Solution("Install the missing module", "pip install {module_name}",
                         <<"module_name">>) >>
      [] error_type = "python_syntax_error" ->
             << Advice("Check the syntax at the indicated line") >>
      [] error_type = "shell_command_not_found" ->
             << Solution("Install the missing command",
                         "apt-get install {package_name}  # For Debian/Ubuntu",
                         <<"package_name">>),
                Advice("Check if the command is in your PATH") >>
      [] error_type = "file_not_found" ->
             << Solution("Create the missing directory", "mkdir -p {directory_path}",
                         <<"directory_path">>),
                Advice("Check the file path and current directory") >>
      [] error_type = "permission_denied" ->
             << Solution("Change file permissions", "chmod +x {file_path}", <<"file_path">>),
                Solution("Run with sudo (if appropriate)", "sudo {original_command}",
                         <<"original_command">>) >>
      [] error_type = "git_not_a_repo" ->
             << Command("Initialize a git repository", "git init"),
                Advice("Change to the correct directory") >>
      [] error_type = "pip_package_not_found" ->
             << Advice("Check the package name spelling"),
                Solution("Try specifying an older version",
                         "pip install {package_name}=={version}",
                         <<"package_name", "version">>),
                Advice("Look for alternative packages") >>
      [] OTHER -> << Advice("Search for the error message online") >>

RECURSIVE Replace(_, _, _)
\* s.replace(old, new)
Replace(s, old, new) ==
    IF Len(s) < Len(old) THEN s
    ELSE IF StartsWith(s, old)
    THEN new \o Replace(SubSeq(s, Len(old) + 1, Len(s)), old, new)
    ELSE Char(s, 1) \o Replace(SubSeq(s, 2, Len(s)), old, new)

\* what the expression _fill_solution_variables uses for var captures
Captured(var, text) ==
    CASE var \in {"package_name", "module_name"} -> text.module
      [] var = "file_path"      -> text.file_path
      [] var = "directory_path" -> text.directory_path
      [] var = "npm_package"    -> text.npm_package
      [] var = "component_name" -> text.component_name
      [] OTHER -> ""

RECURSIVE FillVariables(_, _, _)
\* for var in variables: replace {var} when its expression matches
FillVariables(template, variables, text) ==
    IF variables = <<>> THEN template
    ELSE LET var == Head(variables)
             filled == IF var # "original_command" /\ Captured(var, text) # ""
                       THEN Replace(template, "{" \o var \o "}", Captured(var, text))
                       ELSE template
         IN FillVariables(filled, Tail(variables), text)

\* _fill_solution_variables, for one solution
FillSolution(solution, command, text) ==
    IF ~solution.has_command \/ ~solution.has_variables
    THEN solution
    ELSE LET with_command ==
                 IF \E i \in 1..Len(solution.variables) :
                        solution.variables[i] = "original_command"
                 THEN Replace(solution.command, "{original_command}", command)
                 ELSE solution.command
         IN [solution EXCEPT
               !.command = FillVariables(with_command, solution.variables, text)]

\* _extract_solutions_from_text on a response of the language model: a
\* command ready to run, one with a placeholder of the model's own, a
\* destructive one, and advice without a command
LLMSolutions ==
    << Command("Install the package", "pip install requests"),
       Command("Install the missing package", "pip install {package}"),
       Command("Remove the build directory", "rm -rf build"),
       Advice("Check your virtual environment") >>

\* a test_solution that never looks for placeholders
HasUnfilledNever(command) == FALSE

\* re.search(r'\{[^}]+\}', command)
HasUnfilled(command) ==
    \E i \in 1..Len(command), j \in 1..Len(command) :
        /\ j > i + 1
        /\ Char(command, i) = "{" /\ Char(command, j) = "}"
        /\ \A k \in (i + 1)..(j - 1) : Char(command, k) # "}"

\* any(danger in command for danger in [...]) of test_solution
LooksDangerous(command) ==
    \E danger \in {"rm -rf", "mkfs", "dd if=/dev/zero", "> /dev/sda", "chmod -R 777 /"} :
        Contains(command, danger)

\* test_solution(solution): what it returns, and whether it calls
\* command_executor.execute; ok = the outcome of that execution
TestSolutionResult(solution, has_executor, ok) ==
    IF ~has_executor \/ ~solution.has_command
    THEN [tested |-> FALSE, success |-> FALSE, reason |-> "No command executor or no command",
          executes |-> FALSE]
    ELSE IF LooksDangerous(solution.command)
    THEN [tested |-> FALSE, success |-> FALSE, reason |-> "Command looks potentially dangerous",
          executes |-> FALSE]
    ELSE IF HasUnfilled(solution.command)
    THEN [tested |-> FALSE, success |-> FALSE, reason |-> "Command contains unfilled variables",
          executes |-> FALSE]
    ELSE [tested |-> TRUE, success |-> ok, reason |-> "", executes |-> TRUE]

RECURSIVE Basename(_)
\* os.path.basename(path)
Basename(path) ==
    IF ~Contains(path, "/") THEN path
    ELSE Basename(SubSeq(path, 2, Len(path)))

\* the last command a strategy handler of AutoErrorResolver gives the command
\* runner, built from its own capture in the error text ("" = it gives
\* none); is_file = os.path.isfile of the captured path
HandlerCommand(error_type, text, is_file) ==
    IF error_type \notin DOMAIN AUTOFIXABLE_ERRORS
       \/ ~HasAttr(FixMethodName(AUTOFIXABLE_ERRORS[error_type]))
    THEN ""
    ELSE CASE error_type \in {"python_import_error", "python_module_not_found"} ->
                 IF text.module # "" THEN "pip install " \o text.module ELSE ""
           [] error_type = "npm_package_not_found" ->
                 IF text.registry # "" THEN "npm install " \o text.registry ELSE ""
           [] error_type = "react_module_not_found" ->
                 IF text.npm_package # "" THEN "npm install " \o text.npm_package ELSE ""
           [] error_type = "file_not_found" ->
                 IF text.path = "" THEN ""
                 ELSE IF Char(text.path, Len(text.path)) = "/"
                         \/ ~Contains(Basename(text.path), ".")
                 THEN "mkdir -p " \o text.path
                 ELSE "touch " \o text.path
           [] error_type = "permission_denied" ->
                 IF text.path = "" THEN ""
                 ELSE IF is_file THEN "chmod +x " \o text.path
                 ELSE "chmod -R 755 " \o text.path
           [] error_type = "git_not_a_repo" -> "git init"
           [] OTHER -> ""

(***************************************************************************)
(* ErrorSearcher: the providers.  A result is [id, source, question, code, *)
(* keyword, metrics] as for the ranking pass.                              *)
(***************************************************************************)
\* num_results of search_error
NumResults == 5

\* the metrics search_knowledge_base gives every item
KnowledgeMetrics == Metrics(90, 90, 80, 70, 80, 8400)

\* search_knowledge_base: "none" = the resolver has no knowledge store,
\* "fail" = the store's search raises, else the items found
SearchKnowledgeBase(kb) ==
    IF kb.state # "ok" THEN <<>>
    ELSE [i \in 1..kb.items |->
             [id |-> i, source |-> "knowledge_base", question |-> FALSE, code |-> FALSE,
              keyword |-> FALSE, metrics |-> KnowledgeMetrics]]

\* an item of the Stack Exchange API: votes = its "score", age in days,
\* body_length in characters; title_question = the title holds "?",
\* keyword = the body text says "solution" or "fixed"
Item(votes, is_answered, answer_count, accepted, age, body_length, title_question, keyword) ==
    [votes |-> votes, is_answered |-> is_answered, answer_count |-> answer_count,
     accepted |-> accepted, age |-> age, body_length |-> body_length,
     title_question |-> title_question, keyword |-> keyword]

\* the metrics _search_stack_overflow computes for an item, in tenths
StackOverflowItemMetrics(item) ==
    LET answers == IF item.answer_count * 5 < 30 THEN item.answer_count * 5 ELSE 30
        comm == item.votes + (IF item.is_answered THEN 20 ELSE 0) + answers
        rec == IF item.age < 30 THEN 100
               ELSE IF item.age < 180 THEN 80
               ELSE IF item.age < 365 THEN 60
               ELSE IF item.age < 730 THEN 40
               ELSE 20
        comp == (item.body_length * 3) \div 100 + (IF item.accepted THEN 50 ELSE 0)
    IN StackOverflowMetrics(70 + (IF item.accepted THEN 30 ELSE 0),
                            rec,
                            IF comm < 100 THEN comm ELSE 100,
                            IF comp < 100 THEN comp ELSE 100)

\* a recent, well voted question with an accepted answer
AcceptedQuestion == Item(50, TRUE, 6, TRUE, 10, 2000, FALSE, FALSE)

\* the questions the Stack Exchange API returns: the accepted one, the
\* same with "fixed" in its text, an old one nobody answered, and a
\* question voted down
StackOverflowItems ==
    {AcceptedQuestion,
     Item(50, TRUE, 6, TRUE, 10, 2000, FALSE, TRUE),
     Item(0, FALSE, 0, FALSE, 1000, 0, TRUE, FALSE),
     Item(-30, FALSE, 0, FALSE, 400, 500, TRUE, FALSE)}

\* the result _search_stack_overflow builds from an item
StackOverflowResult(item) ==
    [source |-> "stackoverflow", question |-> item.title_question /\ ~item.is_answered,
     code |-> FALSE, keyword |-> item.keyword, metrics |-> StackOverflowItemMetrics(item)]

StackOverflowKinds == {StackOverflowResult(item) : item \in StackOverflowItems}

\* _search_stack_overflow: [] when the request fails
SearchStackOverflow(so) ==
    IF so.state # "ok" THEN <<>>
    ELSE [i \in 1..Len(so.kinds) |->
             [id |-> 10 + i, source |-> "stackoverflow", question |-> so.kinds[i].question,
              code |-> so.kinds[i].code, keyword |-> so.kinds[i].keyword,
              metrics |-> so.kinds[i].metrics]]

\* the metrics _search_web computes for the item at a position (from 0) of
\* an unknown domain, without a date, with a snippet of 200 characters
WebMetrics(position) ==
    LET bonus == IF 50 - 5 * position > 0 THEN 50 - 5 * position ELSE 0
        rel == IF 50 + bonus < 100 THEN 50 + bonus ELSE 100
    IN Metrics(rel, 50, 50, 50, 40, rel * 30 + 50 * 30 + 50 * 20 + 50 * 10 + 40 * 10)

\* the entry _search_web returns when GOOGLE_API_KEY or
\* GOOGLE_SEARCH_ENGINE_ID is not configured
WebNotAvailable ==
    [id |-> 20, source |-> "info", question |-> FALSE, code |-> FALSE, keyword |-> FALSE,
     metrics |-> Metrics(0, 0, 0, 0, 0, 0)]

\* _search_web(query, num_results)
SearchWeb(web, num_results) ==
    CASE web.state = "unconfigured" -> <<WebNotAvailable>>
      [] web.state = "fail" -> <<>>
      [] OTHER ->
         LET n == IF web.items < num_results THEN web.items ELSE num_results
         IN [i \in 1..n |->
                [id |-> 20 + i, source |-> "web", question |-> FALSE, code |-> TRUE,
                 keyword |-> FALSE, metrics |-> WebMetrics(i - 1)]]

\* scored_results[:num_results]
Truncate(results, n) == SubSeq(results, 1, IF Len(results) < n THEN Len(results) ELSE n)

(***************************************************************************)
(* ErrorResolver.analyze_error step by step, then what is done with the    *)
(* analysis: test_solution on one of its solutions, or the strategy        *)
(* handler AutoErrorResolver.handle_error dispatches.                      *)
(***************************************************************************)
Text(matches, module, file_path, directory_path, npm_package, path) ==
    [matches |-> matches, group |-> module, module |-> module, file_path |-> file_path,
     directory_path |-> directory_path, npm_package |-> npm_package,
     component_name |-> "", registry |-> "", path |-> path, words |-> 3, pieces |-> Pieces(3, FALSE, 1)]

\* error texts: path is what the handlers' looser expressions capture
ResolverTexts ==
    {Text({"python_module_not_found"}, "requests", "", "", "", ""),
     Text({"python_import_error"}, "", "", "", "", ""),
     Text({"shell_command_not_found"}, "", "", "", "", ""),
     Text({"file_not_found"}, "", "", "build/out", "", "build/out"),
     Text({"file_not_found"}, "", "", "", "", "build/out.txt"),
     Text({"permission_denied"}, "", "run.sh", "", "", "run.sh"),
     Text({"permission_denied"}, "", "", "", "", "bin"),
     Text({"permission_denied", "file_not_found"}, "", "", "", "", ""),
     Text({"pip_package_not_found"}, "", "", "", "", ""),
     Text({"react_module_not_found"}, "", "", "", "left-pad", ""),
     Text({"git_not_a_repo"}, "", "", "", "", ""),
     Text({}, "", "", "", "", "")}

\* the commands that failed
ResolverCommands == {"make build", "awk '{print $1}' f"}

KnowledgeOutcomes ==
    {[state |-> "none", items |-> 0], [state |-> "fail", items |-> 0]}
    \cup {[state |-> "ok", items |-> n] : n \in 0..MaxResults}

StackOverflowOutcomes ==
    {[state |-> "fail", kinds |-> <<>>]}
    \cup {[state |-> "ok", kinds |-> k] :
            k \in UNION {[1..n -> StackOverflowKinds] : n \in 0..MaxResults}}
    \cup {[state |-> "ok",
           kinds |-> [i \in 1..NumResults |-> StackOverflowResult(AcceptedQuestion)]]}

WebOutcomes ==
    {[state |-> "unconfigured", items |-> 0], [state |-> "fail", items |-> 0]}
    \cup {[state |-> "ok", items |-> n] : n \in 0..MaxResults}

LLMOutcomes == {"none", "fail", "ok"}

ResolverInput(command, text, has_executor, kb, so, web, llm) ==
    [pc |-> "called", command |-> command, text |-> text, has_executor |-> has_executor,
     kb |-> kb, so |-> so, web |-> web, llm |-> llm,
     error_type |-> "", common |-> <<>>, solutions |-> <<>>, knowledge_results |-> <<>>,
     results |-> <<>>, sources |-> <<>>, executed |-> <<>>, chosen |-> 0, order |-> <<>>,
     test |-> [tested |-> FALSE, success |-> FALSE, reason |-> "", executes |-> FALSE]]

\* every text and command with the default providers, and every provider
\* outcome with one text
ResolverInputs ==
    {ResolverInput(c, t, x, [state |-> "none", items |-> 0],
                   [state |-> "ok", kinds |-> <<>>],
                   [state |-> "unconfigured", items |-> 0], llm) :
        c \in ResolverCommands, t \in ResolverTexts, x \in BOOLEAN, llm \in LLMOutcomes}
    \cup
    {ResolverInput("make build", Text({"python_module_not_found"}, "requests", "", "", "", ""),
                   TRUE, kb, so, web, llm) :
        kb \in KnowledgeOutcomes, so \in StackOverflowOutcomes, web \in WebOutcomes,
        llm \in LLMOutcomes}

InitResolver ==
    /\ IdleFixer
    /\ resolver \in ResolverInputs
    /\ detector = Idle /\ executor = Idle /\ ranking = Idle
    /\ IdleOthers

ResolverStep(r) ==
    /\ resolver' = r
    /\ UNCHANGED <<fixerVars, detector, executor, ranking, otherVars>>

\* analyze_error up to the search: the detector's analysis, the common
\* solutions of the error type, their variables filled in
ResolveDetect ==
    /\ resolver.pc = "called"
    /\ LET analysis == DetectorAnalysis(1, resolver.text)
           common == CommonSolutions(analysis.error_type)
           filled == [i \in 1..Len(common) |->
                         FillSolution(common[i], resolver.command, resolver.text)]
       IN ResolverStep([resolver EXCEPT !.pc = "analyzed",
                                        !.error_type = analysis.error_type,
                                        !.common = filled,
                                        !.solutions = filled])

\* _search_for_solutions: the knowledge base
ResolveKnowledge ==
    /\ resolver.pc = "analyzed"
    /\ ResolverStep([resolver EXCEPT !.pc = "knowledge",
                                     !.knowledge_results = SearchKnowledgeBase(resolver.kb),
                                     !.order = IF resolver.kb.state # "none"
                                               THEN Append(@, "knowledge_base") ELSE @])

\* search_error: Stack Overflow
ResolveStackOverflow ==
    /\ resolver.pc = "knowledge"
    /\ ResolverStep([resolver EXCEPT !.pc = "stackoverflow",
                                     !.results = SearchStackOverflow(resolver.so),
                                     !.order = Append(@, "stackoverflow")])

\* search_error: the web search when Stack Overflow gave too few results
ResolveWeb ==
    /\ resolver.pc = "stackoverflow"
    /\ ResolverStep([resolver EXCEPT
                       !.pc = "web",
                       !.results = IF Len(@) < NumResults
                                   THEN @ \o SearchWeb(resolver.web, NumResults - Len(@))
                                   ELSE @,
                       !.order = IF Len(resolver.results) < NumResults
                                 THEN Append(@, "web") ELSE @])

\* search_error ranks and truncates; _search_for_solutions combines
ResolveCombine ==
    /\ resolver.pc = "web"
    /\ LET online == Truncate(ScoreAndRankResults(resolver.results), NumResults)
       IN ResolverStep([resolver EXCEPT !.pc = "combined",
                                        !.results = online,
                                        !.sources = resolver.knowledge_results \o online])

\* a resolver that asks the language model before the external search
ResolveGenerateEarly ==
    /\ resolver.pc = "knowledge"
    /\ resolver.llm # "none"
    /\ \A i \in 1..Len(resolver.order) : resolver.order[i] # "llm"
    /\ ResolverStep([resolver EXCEPT
                       !.solutions = IF resolver.llm = "ok" THEN LLMSolutions \o @ ELSE @,
                       !.order = Append(@, "llm")])

\* _generate_solutions when there is a language model, and analyze_error
\* returns
ResolveGenerate ==
    /\ resolver.pc = "combined"
    /\ ResolverStep([resolver EXCEPT
                       !.pc = "returned",
                       !.solutions = IF resolver.llm = "ok" THEN LLMSolutions \o @ ELSE @,
                       !.order = IF resolver.llm # "none" THEN Append(@, "llm") ELSE @])

\* test_solution on a solution of the analysis
TestSolution ==
    /\ resolver.pc = "returned"
    /\ \E i \in 1..Len(resolver.solutions), ok \in BOOLEAN :
          LET result == TestSolutionResult(resolver.solutions[i], resolver.has_executor, ok)
          IN /\ result.executes \/ ok
             /\ ResolverStep([resolver EXCEPT
                                !.pc = "tested",
                                !.chosen = i,
                                !.test = result,
                                !.executed =
                                    IF result.executes
                                    THEN Append(@, [by |-> "test_solution",
                                                    command |-> resolver.solutions[i].command])
                                    ELSE @])

\* handle_error dispatches the strategy of the error type
DispatchStrategy ==
    /\ resolver.pc = "returned"
    /\ \E is_file \in BOOLEAN :
       LET command == HandlerCommand(resolver.error_type, resolver.text, is_file)
       IN ResolverStep([resolver EXCEPT
                          !.pc = "dispatched",
                          !.executed = IF command # ""
                                       THEN Append(@, [by |-> "handler", command |-> command])
                                       ELSE @])

NextResolver ==
    \/ ResolveDetect
    \/ ResolveKnowledge
    \/ ResolveStackOverflow
    \/ ResolveWeb
    \/ ResolveCombine
    \/ ResolveGenerate
    \/ TestSolution
    \/ DispatchStrategy

\* one analysis of an error and one use of it
SpecResolver == InitResolver /\ [][NextResolver]_vars

\* analyze_error has returned
Analyzed == resolver.pc \in {"returned", "tested", "dispatched"}

\* the command holds a placeholder: a variable name in braces
Placeholder(command) ==
    \E i \in 1..Len(command), j \in 1..Len(command) :
        /\ j > i + 1
        /\ Char(command, i) = "{" /\ Char(command, j) = "}"
        /\ \A k \in (i + 1)..(j - 1) : Contains(LowerLetters \o "_", Char(command, k))

\* C13: the command runner is never given a solution command that still
\* holds a {variable} placeholder: test_solution on such a solution returns
\* tested = false and executes nothing, and the command a strategy handler
\* runs holds no placeholder either.
C13_NoUnfilledCommandRuns ==
    resolver.pc # "idle" =>
        /\ \A i \in 1..Len(resolver.executed) : ~Placeholder(resolver.executed[i].command)
        /\ (resolver.pc = "tested"
            /\ resolver.solutions[resolver.chosen].has_command
            /\ Placeholder(resolver.solutions[resolver.chosen].command))
           => ~resolver.test.tested /\ ~resolver.test.executes /\ resolver.executed = <<>>

\* test_solution, with a command runner, refused a solution whose command
\* kept its placeholder after _fill_solution_variables
C13_Witness ==
    /\ resolver.pc = "tested"
    /\ resolver.has_executor
    /\ resolver.llm = "none"
    /\ resolver.solutions[resolver.chosen].has_variables
    /\ Placeholder(resolver.solutions[resolver.chosen].command)
    /\ ~resolver.test.tested
    /\ resolver.executed = <<>>

\* the provider a source entry comes from, in priority order
ProviderRank(source) == IF source = "knowledge_base" THEN 1 ELSE 2

\* C19: the combined sources list is ordered by non-increasing composite
\* score; entries with equal score are in provider order (knowledge base
\* before external search) and, within a provider, in insertion order.
C19_SourcesOrdered ==
    (resolver.pc # "idle" /\ Analyzed) =>
        \A i \in 1..Len(resolver.sources), j \in 1..Len(resolver.sources) :
            i < j =>
               LET a == resolver.sources[i]
                   b == resolver.sources[j]
               IN /\ a.metrics.composite >= b.metrics.composite
                  /\ a.metrics.composite = b.metrics.composite
                     => /\ ProviderRank(a.source) <= ProviderRank(b.source)
                        /\ a.source = b.source => a.id < b.id

\* C20: a provider that failed contributes nothing: no entry of it is in
\* sources or solutions, and analyze_error returns all the same.
C20_FailedProviderIsEmpty ==
    (resolver.pc # "idle" /\ Analyzed) =>
        /\ resolver.kb.state # "ok"
           => \A i \in 1..Len(resolver.sources) : resolver.sources[i].source # "knowledge_base"
        /\ resolver.so.state # "ok"
           => \A i \in 1..Len(resolver.sources) : resolver.sources[i].source # "stackoverflow"
        /\ resolver.web.state # "ok"
           => \A i \in 1..Len(resolver.sources) :
                 resolver.sources[i].source \in {"knowledge_base", "stackoverflow"}
        /\ resolver.llm # "ok" => resolver.solutions = resolver.common

\* the place of a provider in the order knowledge base, generated, external
GeneratedBeforeExternal(provider) ==
    CASE provider = "knowledge_base" -> 1
      [] provider = "llm" -> 2
      [] OTHER -> 3

\* the place of a provider in the order knowledge base, external, generated
GeneratedLast(provider) ==
    CASE provider = "knowledge_base" -> 1
      [] provider = "stackoverflow" -> 2
      [] provider = "web" -> 3
      [] provider = "llm" -> 4

\* C21 as stated: the providers are queried one after another in the order
\* knowledge base, language model, external search.
C21_GeneratedBeforeExternal ==
    resolver.pc # "idle" =>
        \A i \in 1..Len(resolver.order), j \in 1..Len(resolver.order) :
            i < j => GeneratedBeforeExternal(resolver.order[i])
                        < GeneratedBeforeExternal(resolver.order[j])
                     \/ (resolver.order[i] = "stackoverflow" /\ resolver.order[j] = "web")

\* C21: the providers are queried one after another, each call awaited
\* before the next starts, in the order knowledge base, external search
\* (Stack Overflow, then the web), language model; no provider is queried
\* twice.
C21_ProvidersInOrder ==
    resolver.pc # "idle" =>
        \A i \in 1..Len(resolver.order), j \in 1..Len(resolver.order) :
            i < j => GeneratedLast(resolver.order[i]) < GeneratedLast(resolver.order[j])

\* an analysis that queried all four providers
C21_Witness ==
    /\ resolver.pc = "returned"
    /\ resolver.order = <<"knowledge_base", "stackoverflow", "web", "llm">>

\* every sub-score of the metrics is on the scale 0 to 10
OnScale(m) ==
    /\ m.relevance \in 0..100
    /\ m.authority \in 0..100
    /\ m.recency \in 0..100
    /\ m.community \in 0..100
    /\ m.completeness \in 0..100

\* C27: every sub-score of every result of search_error is between 0 and
\* 10, as the providers compute it and after the content-aware adjustments.
C27_SubScoresOnScale ==
    resolver.pc # "idle" =>
        \A i \in 1..Len(resolver.results) : OnScale(resolver.results[i].metrics)

\* C28: a result that looks like an unanswered question ends the ranking
\* pass with a composite score 2 below the weighted sum of its adjusted
\* sub-scores.
C28_QuestionPenaltyKept ==
    ranking.pc \in {"ranked", "reranked", "reordered"} =>
        \A i \in 1..Len(ranking.first) :
            ranking.first[i].question
            => ranking.first[i].metrics.composite
                  = Composite(ranking.first[i].metrics) - 2000

(***************************************************************************)
(* KnowledgeStore.  The files of store_dir: db (table "knowledge", item id *)
(* -> item), index_map (table "index_map", index position -> item id) and  *)
(* disk, the vector index file.  Both tables commit every write.  The      *)
(* object opened on them holds index, the vector index in memory.  An      *)
(* item, and its embedding, is named by the number of the insertion that   *)
(* made it; an item id is <<milliseconds, n>> for "item_{ms}_{n}".         *)
(***************************************************************************)
\* the insertions of a behaviour
MaxItems == 3

\* the items of a store that has been in use before
Preloaded == 8

\* the milliseconds that pass
MaxClock == 1

\* the stores opened on the directory after the first
MaxRestarts == 1

MaxDeletes == 1

\* _add_to_index saves the index when ntotal % 10 == 0
SavePeriod == 10

\* top_k of KnowledgeStore.search
TopK == 5

\* stop_after_attempt(6) of generate_embedding
MaxEmbeddingAttempts == 6

\* f with key k set to v: self.db[k] = v of a SqliteDict
Put(f, k, v) == [x \in DOMAIN f \cup {k} |-> IF x = k THEN v ELSE f[x]]

\* del f[k]
Remove(f, k) == [x \in DOMAIN f \ {k} |-> f[x]]

\* f"item_{int(time.time() * 1000)}_{n}"
ItemId(ms, n) == <<ms, n>>

\* _save_index
SaveIndex(s) == [s EXCEPT !.disk = [exists |-> TRUE, vectors |-> s.index]]

\* _add_to_index(item_id, embedding): the embedding of insertion k
AddToIndex(s, item_id, k) ==
    LET index == Append(s.index, k)
        added == [s EXCEPT !.index = index,
                           !.index_map = Put(@, Len(index) - 1, item_id)]
    IN IF Len(index) % SavePeriod = 0 THEN SaveIndex(added) ELSE added

\* the body add_item and the loop of add_items share: the item stored under
\* item_id, its embedding added to the index
StoreItem(s, item_id) ==
    LET k == Len(s.assigned) + 1
    IN AddToIndex([s EXCEPT !.db = Put(@, item_id, k),
                            !.assigned = Append(@, item_id),
                            !.inserted = @ + 1,
                            !.overwritten = @ \/ item_id \in DOMAIN s.db],
                  item_id, k)

\* add_item(content, metadata)
AddItemTo(s) == StoreItem(s, ItemId(s.now, Cardinality(DOMAIN s.db)))

RECURSIVE AddItemsTo(_, _, _)
\* add_items(items): the loop from item i of n items
AddItemsTo(s, i, n) ==
    IF i >= n THEN s
    ELSE AddItemsTo(StoreItem(s, ItemId(s.now, Cardinality(DOMAIN s.db) + i)), i + 1, n)

\* _load_or_create_index
LoadOrCreateIndex(s) == IF s.disk.exists THEN s.disk.vectors ELSE <<>>

\* generate_embedding(text): whatever the service does, the first attempt
\* returns a vector (the service's or a random one), so the retry decorator
\* never sees an exception
GenerateEmbedding(service) ==
    [attempts |-> 1, raised |-> FALSE,
     vector |-> IF service = "ok" THEN "embedding" ELSE "random"]

\* KnowledgeStore.search(query, top_k) for the index positions faiss
\* returns: the number of items in the list it returns
SearchStore(s, positions) ==
    Cardinality({pos \in positions : pos \in DOMAIN s.index_map
                                     /\ s.index_map[pos] \in DOMAIN s.db})

\* a store after n insertions, one in each millisecond, and close(); a new
\* KnowledgeStore is open on it
UsedStore(n) ==
    [pc |-> "open", now |-> n,
     db |-> [id \in {ItemId(k - 1, k - 1) : k \in 1..n} |-> id[1] + 1],
     index_map |-> [pos \in 0..(n - 1) |-> ItemId(pos, pos)],
     disk |-> [exists |-> n > 0, vectors |-> [k \in 1..n |-> k]],
     index |-> [k \in 1..n |-> k],
     assigned |-> [k \in 1..n |-> ItemId(k - 1, k - 1)],
     ticks |-> 0, inserted |-> 0, overwritten |-> FALSE, deletes |-> 0, restarts |-> 0,
     removed |-> FALSE, remapped |-> FALSE, service |-> "", attempts |-> 0, found |-> 0]

InitStore ==
    /\ IdleFixer
    /\ detector = Idle /\ executor = Idle /\ ranking = Idle /\ resolver = Idle
    /\ context = Idle /\ cli = Idle /\ reranker = Idle
    /\ store \in {UsedStore(0), UsedStore(Preloaded)}

StoreStep(s) ==
    /\ store' = s
    /\ UNCHANGED <<fixerVars, detector, executor, ranking, resolver, context, cli, reranker>>

\* what a step did to the entries the tables had: removed or changed an
\* entry of db, changed an entry of index_map
Written(old, new) ==
    [new EXCEPT
       !.removed = @ \/ \E id \in DOMAIN old.db :
                           id \notin DOMAIN new.db \/ new.db[id] # old.db[id],
       !.remapped = @ \/ \E pos \in DOMAIN old.index_map :
                            pos \notin DOMAIN new.index_map
                            \/ new.index_map[pos] # old.index_map[pos]]

\* a millisecond passes
StoreTick ==
    /\ store.pc # "searched"
    /\ store.ticks < MaxClock
    /\ StoreStep([store EXCEPT !.now = @ + 1, !.ticks = @ + 1])

AddItem ==
    /\ store.pc = "open"
    /\ store.inserted < MaxItems
    /\ StoreStep(Written(store, AddItemTo(store)))

\* add_items with two items
AddItems ==
    /\ store.pc = "open"
    /\ store.inserted + 2 <= MaxItems
    /\ StoreStep(Written(store, AddItemsTo(store, 0, 2)))

\* delete_item of a stored item
DeleteItem ==
    /\ store.pc = "open"
    /\ store.deletes < MaxDeletes
    /\ \E item_id \in DOMAIN store.db :
          StoreStep(Written(store, [store EXCEPT !.db = Remove(@, item_id),
                                                 !.deletes = @ + 1]))

\* close()
CloseStore ==
    /\ store.pc = "open"
    /\ StoreStep([SaveIndex(store) EXCEPT !.pc = "closed"])

\* KnowledgeStore(store_dir) on the directory of a closed store, or of one
\* that was never closed
OpenStore ==
    /\ store.pc \in {"open", "closed"}
    /\ store.restarts < MaxRestarts
    /\ StoreStep([store EXCEPT !.pc = "open", !.restarts = @ + 1,
                               !.index = LoadOrCreateIndex(store)])

\* search(query): the behaviour ends with it
Search ==
    /\ store.pc = "open"
    /\ \E service \in {"ok", "fail", "no_client"} :
          LET embedding == GenerateEmbedding(service)
              ntotal == Len(store.index)
              top_k == IF TopK < ntotal THEN TopK ELSE ntotal
          IN IF ntotal = 0
             THEN StoreStep([store EXCEPT !.pc = "searched", !.service = service])
             ELSE \E positions \in SUBSET (0..(ntotal - 1)) :
                     /\ Cardinality(positions) = top_k
                     /\ StoreStep([store EXCEPT !.pc = "searched",
                                                !.service = service,
                                                !.attempts = embedding.attempts,
                                                !.found = SearchStore(store, positions)])

NextStore ==
    \/ StoreTick
    \/ AddItem
    \/ AddItems
    \/ DeleteItem
    \/ CloseStore
    \/ OpenStore
    \/ Search

\* a knowledge store directory over its life
SpecStore == InitStore /\ [][NextStore]_vars

\* item ids in the order of "item_{ms}_{n}": by millisecond, then by n
IdBefore(a, b) == a[1] < b[1] \/ (a[1] = b[1] /\ a[2] < b[2])

\* C22: the ids add_item and add_items assign are unique and increase with
\* the insertions, and no insertion overwrites a stored item.
C22_ItemIdsUnique ==
    store.pc # "idle" =>
        /\ \A i \in 1..Len(store.assigned), j \in 1..Len(store.assigned) :
              i < j => IdBefore(store.assigned[i], store.assigned[j])
        /\ ~store.overwritten

\* C23: no operation of the store changes or removes an entry the metadata
\* table or the position-to-id table already has.
C23_AppendOnly ==
    store.pc # "idle" => ~store.removed /\ ~store.remapped

\* C24: an embedding request is attempted at most 6 times, and a search
\* whose embedding service fails returns an empty list.
C24_FailedEmbeddingFindsNothing ==
    (store.pc = "searched" /\ store.service = "fail") =>
        /\ store.attempts <= MaxEmbeddingAttempts
        /\ store.found = 0

\* the vector index of the store: in memory, or the file of a closed store
Vectors == IF store.pc = "closed" THEN store.disk.vectors ELSE store.index

\* C30: every entry of the position-to-id table names the item whose
\* embedding the vector index holds at that position.
C30_IndexMapMatchesIndex ==
    store.pc # "idle" =>
        \A pos \in DOMAIN store.index_map :
            /\ pos < Len(Vectors)
            /\ store.assigned[Vectors[pos + 1]] = store.index_map[pos]

(***************************************************************************)
(* ContextManager.  A history item is [n, item_type, current_dir], n the   *)
(* number of the update call that added it.                                *)
(***************************************************************************)
\* the largest max_history a ContextManager is made with
MaxHistory == 3

\* the update calls of a behaviour
MaxUpdates == 5

\* seq[-n:] of a Python list, for n >= 0: -0 is 0, so seq[-0:] is all of seq
LastSlice(seq, n) ==
    IF n = 0 \/ n >= Len(seq) THEN seq
    ELSE SubSeq(seq, Len(seq) - n + 1, Len(seq))

\* update(content, item_type, metadata)
ContextUpdate(c, item_type) ==
    LET history == Append(c.history, [n |-> c.updates + 1, item_type |-> item_type,
                                      current_dir |-> c.current_dir])
    IN [c EXCEPT !.updates = @ + 1,
                 !.history = IF Len(history) > c.max_history
                             THEN LastSlice(history, c.max_history)
                             ELSE history]

InitContext ==
    /\ IdleFixer
    /\ detector = Idle /\ executor = Idle /\ ranking = Idle /\ resolver = Idle
    /\ store = Idle /\ cli = Idle /\ reranker = Idle
    /\ context \in {[pc |-> "made", max_history |-> m, history |-> <<>>, updates |-> 0,
                     current_dir |-> "/home", user_preferences |-> {}] :
                       m \in 0..MaxHistory}

ContextStep(c) ==
    /\ context' = c
    /\ UNCHANGED <<fixerVars, detector, executor, ranking, resolver, store, cli, reranker>>

\* update(content, item_type) by a caller
Update ==
    /\ context.updates < MaxUpdates
    /\ \E item_type \in {"user_input", "assistant_response"} :
          ContextStep(ContextUpdate(context, item_type))

\* update_working_directory(new_dir)
UpdateWorkingDirectory ==
    /\ context.updates < MaxUpdates
    /\ \E new_dir \in {"/home", "/tmp"}, is_dir \in BOOLEAN :
          ContextStep(IF is_dir
                      THEN ContextUpdate([context EXCEPT !.current_dir = new_dir],
                                         "system_event")
                      ELSE context)

\* update_user_preference(key, value)
UpdateUserPreference ==
    /\ context.updates < MaxUpdates
    /\ \E key \in {"theme"} :
          ContextStep(ContextUpdate([context EXCEPT !.user_preferences = @ \cup {key}],
                                    "system_event"))

NextContext ==
    \/ Update
    \/ UpdateWorkingDirectory
    \/ UpdateUserPreference

\* a ContextManager and the updates made to it
SpecContext == InitContext /\ [][NextContext]_vars

\* C26: after any updates the history holds at most max_history items, and
\* they are the most recently added ones in the order they were added.
C26_HistoryBounded ==
    context.pc # "idle" =>
        /\ Len(context.history) <= context.max_history
        /\ Len(context.history) =
              (IF context.updates < context.max_history THEN context.updates
               ELSE context.max_history)
        /\ \A i \in 1..Len(context.history) :
              context.history[i].n = context.updates - Len(context.history) + i

(***************************************************************************)
(* The command line: main() for the commands fix and fix-script.  What     *)
(* run_with_auto_fix does with a command is an input here: it returns      *)
(* "true" or "false", or it raises ("raise").                              *)
(***************************************************************************)
\* the commands of a script file
MaxCommands == 3

LoopOutcomes == {"true", "false", "raise"}

\* the names of the commands run_command knows
COMMANDS == {"error-demo", "fix", "fix-script", "monitor", "models"}

\* parse_args: the sub-command and the positional argument of fix are both
\* stored as "command", so the argument replaces the sub-command's name;
\* the key is then deleted from the arguments
ParseArgs(subcommand, argument) ==
    [command |-> IF subcommand = "fix" THEN argument ELSE subcommand,
     has_command_arg |-> FALSE]

\* the invocations: `fix <argument>`, and `fix-script <file>` with the
\* outcomes of the commands of the file
CliInputs ==
    {[pc |-> "main", subcommand |-> "fix", argument |-> a, command |-> "",
      models_ok |-> m, continue_on_error |-> FALSE,
      outcomes |-> <<o>>, results |-> <<>>, raised |-> FALSE, exit_code |-> -1] :
        a \in {"npm install", "fix"}, m \in BOOLEAN, o \in LoopOutcomes}
    \cup
    {[pc |-> "main", subcommand |-> "fix-script", argument |-> "build.sh", command |-> "",
      models_ok |-> m, continue_on_error |-> k,
      outcomes |-> o, results |-> <<>>, raised |-> FALSE, exit_code |-> -1] :
        m \in BOOLEAN, k \in BOOLEAN,
        o \in UNION {[1..n -> LoopOutcomes] : n \in 1..MaxCommands}}

InitCli ==
    /\ IdleFixer
    /\ detector = Idle /\ executor = Idle /\ ranking = Idle /\ resolver = Idle
    /\ store = Idle /\ context = Idle /\ reranker = Idle
    /\ cli \in CliInputs

CliStep(c) ==
    /\ cli' = c
    /\ UNCHANGED <<fixerVars, detector, executor, ranking, resolver, store, context, reranker>>

\* main: parse_args, then check_required_models() before any command but
\* models
CheckRequiredModels ==
    /\ cli.pc = "main"
    /\ LET parsed == ParseArgs(cli.subcommand, cli.argument)
       IN CliStep(IF cli.models_ok
                  THEN [cli EXCEPT !.pc = "run_command", !.command = parsed.command]
                  ELSE [cli EXCEPT !.pc = "exited", !.exit_code = 1,
                                   !.command = parsed.command])

\* run_command for a name that is not in COMMANDS: it prints the commands
UnknownCommand ==
    /\ cli.pc = "run_command"
    /\ cli.command \notin COMMANDS
    /\ CliStep([cli EXCEPT !.pc = "done"])

\* command_auto_fix: args has no "command", so it prints "No command
\* specified" and returns before handler.run_with_auto_fix
CommandAutoFix ==
    /\ cli.pc = "run_command"
    /\ cli.command = "fix"
    /\ CliStep(IF ParseArgs(cli.subcommand, cli.argument).has_command_arg
               THEN [cli EXCEPT !.pc = "done",
                                !.results = <<cli.outcomes[1]>>,
                                !.raised = cli.outcomes[1] = "raise"]
               ELSE [cli EXCEPT !.pc = "done"])

\* command_auto_fix_script -> run_all_commands: one turn of its loop
RunAllCommands ==
    /\ cli.pc = "run_command"
    /\ cli.command = "fix-script"
    /\ LET i == Len(cli.results) + 1
           outcome == cli.outcomes[i]
           results == Append(cli.results, outcome)
       IN CliStep([cli EXCEPT
                     !.results = results,
                     !.raised = outcome = "raise",
                     !.pc = IF \/ outcome = "raise"
                               \/ (outcome = "false" /\ ~cli.continue_on_error)
                               \/ i = Len(cli.outcomes)
                            THEN "done" ELSE "run_command"])

\* main returns after asyncio.run(run_command(...))
MainReturn ==
    /\ cli.pc = "done"
    /\ CliStep([cli EXCEPT !.pc = "exited", !.exit_code = 0])

NextCli ==
    \/ CheckRequiredModels
    \/ UnknownCommand
    \/ CommandAutoFix
    \/ RunAllCommands
    \/ MainReturn

\* one invocation of zangalewa fix or zangalewa fix-script
SpecCli == InitCli /\ [][NextCli]_vars

\* C25: fix and fix-script exit with 0 exactly when every command run
\* through the loop succeeded, and with a non-zero code when one failed.
C25_ExitCodeTellsSuccess ==
    (cli.pc = "exited" /\ cli.results # <<>>) =>
        (cli.exit_code = 0
         <=> \A i \in 1..Len(cli.results) : cli.results[i] = "true")

(***************************************************************************)
(* ErrorResolver.rank_solutions.  The answer of the language model is the  *)
(* sequence of the numbers N of its "Solution N" mentions, in text order.  *)
(***************************************************************************)
\* the solutions of an analysis
MaxSolutions == 3

\* the "Solution N" mentions of an answer
MaxMentions == 2

RECURSIVE Ascending(_)
\* the elements of a set of indices in the order a Python set of small
\* integers is iterated: ascending
Ascending(S) ==
    IF S = {} THEN <<>>
    ELSE LET least == CHOOSE x \in S : \A y \in S : x <= y
         IN <<least>> \o Ascending(S \ {least})

\* re.search(r'Solution\s+(\d+)', response): the first mention, 0-based
\* index; -1 stands for no match
SearchSolution(mentions) == IF mentions = <<>> THEN -1 ELSE Head(mentions) - 1

\* the loop over the solutions: every turn searches the whole response
RankedIndices(n, mentions) ==
    IF mentions # <<>> /\ SearchSolution(mentions) \in 0..(n - 1)
    THEN [i \in 1..n |-> SearchSolution(mentions)]
    ELSE <<>>

\* _rank_with_llm(error_analysis)
RankWithLLM(solutions, response) ==
    LET n == Len(solutions)
        ranked == RankedIndices(n, response.mentions)
        missing == (0..(n - 1)) \ {ranked[i] : i \in 1..Len(ranked)}
        indices == ranked \o Ascending(missing)
    IN IF response.raises \/ ranked = <<>>
       THEN solutions
       ELSE [i \in 1..Len(indices) |-> solutions[indices[i] + 1]]

\* rank_solutions(error_analysis): the solutions of the analysis it returns
RankSolutions(solutions, has_llm, response) ==
    IF has_llm /\ Len(solutions) > 1
    THEN LET ranked_solutions == RankWithLLM(solutions, response)
         IN IF ranked_solutions # <<>> THEN ranked_solutions ELSE solutions
    ELSE solutions

\* analyses with 1..MaxSolutions solutions, with and without a language
\* model, and its answers
RerankerInputs ==
    {[pc |-> "called", solutions |-> sols, has_llm |-> h,
      response |-> [raises |-> r, mentions |-> m], ranked |-> <<>>] :
        sols \in UNION {{[i \in 1..n |-> [id |-> i, has_command |-> c[i]]] :
                           c \in [1..n -> BOOLEAN]} : n \in 1..MaxSolutions},
        h \in BOOLEAN, r \in BOOLEAN,
        m \in UNION {[1..k -> 0..(MaxSolutions + 1)] : k \in 0..MaxMentions}}

InitReranker ==
    /\ IdleFixer
    /\ detector = Idle /\ executor = Idle /\ ranking = Idle /\ resolver = Idle
    /\ store = Idle /\ context = Idle /\ cli = Idle
    /\ reranker \in {i \in RerankerInputs :
                       /\ ~i.has_llm => ~i.response.raises /\ i.response.mentions = <<>>
                       /\ i.response.raises => i.response.mentions = <<>>}

\* rank_solutions on the analysis
RankSolutionsCall ==
    /\ reranker.pc = "called"
    /\ reranker' = [reranker EXCEPT
                      !.pc = "ranked",
                      !.ranked = RankSolutions(reranker.solutions, reranker.has_llm,
                                               reranker.response)]
    /\ UNCHANGED <<fixerVars, detector, executor, ranking, resolver, store, context, cli>>

NextReranker == RankSolutionsCall

\* one call of rank_solutions
SpecReranker == InitReranker /\ [][NextReranker]_vars

\* C29: the solutions rank_solutions returns are a permutation of the
\* solutions it was given, whatever the language model answers.
C29_RankingIsPermutation ==
    reranker.pc = "ranked" =>
        /\ Len(reranker.ranked) = Len(reranker.solutions)
        /\ \A i \in 1..Len(reranker.solutions) :
              Cardinality({j \in 1..Len(reranker.ranked) :
                              reranker.ranked[j] = reranker.solutions[i]}) = 1

====
